---- MODULE Spec2Model ----
(***************************************************************************)
(* Model of the request-admission layer of the trip-planner backend        *)
(* (src/api/main.py): the sliding-window RateLimiter, the TTL SearchCache  *)
(* and the search_google_places handler that combines them; and of the     *)
(* similarity search over the catalog of embedded places                   *)
(* (src/data_pipeline/search_places.py).                                   *)
(*                                                                         *)
(* Time is time.time() in whole seconds; the clock never runs backwards.   *)
(* Strings that the code manipulates (queries) are sequences of            *)
(* characters; the md5 digest of _make_key is an injective tag.            *)
(* Embeddings are vectors of small integers; a similarity score is kept    *)
(* exact as the pair (num, den) that stands for num / sqrt(den).           *)
(***************************************************************************)
EXTENDS Integers, Sequences, FiniteSets, TLC

VARIABLES
    now,            \* the value time.time() returns
    per_minute,     \* RateLimiter.per_minute
    per_day,        \* RateLimiter.per_day
    minute_window,  \* RateLimiter.minute_window (deque, left end first)
    day_window,     \* RateLimiter.day_window    (deque, left end first)
    ttl,            \* SearchCache.ttl
    cache,          \* SearchCache.cache: key -> (timestamp, data)
    calls,          \* number of calls made and clock advances so far
    lastOp,         \* the call made by the last step
    arg,            \* the query that call was given, if any
    ret,            \* what that call returned
    pc,             \* per request of search_google_places: where it stands
    rquery,         \* per request: its query
    rlimit,         \* per request: its max_results
    evicted,        \* history, per request: its cache lookup removed an expired entry
    response,       \* per request: what it returned or raised
    places,         \* the catalog search() is given: places with embeddings
    upstream,       \* the places of an upstream response that is transformed
    plan,           \* the plan of the language model that create_plan fills in
    planned,        \* where create_plan stands before its loops, and what it raised
    thread,         \* per thread: the call of the limiter it is in, and where
    recorded,       \* history: every timestamp record() ever appended
    admitted,       \* history: a check() allowed and no record() used it yet
    disciplined,    \* history: every record() so far used up an admission
    denied,         \* history: the bounds named by denials since the last record()
    lastSet         \* history: per query, the latest set() made with it

limiterVars == <<per_minute, per_day, minute_window, day_window>>
cacheVars == <<ttl, cache>>
historyVars == <<recorded, admitted, disciplined, denied>>
requestVars == <<pc, rquery, rlimit, evicted, response>>
indexVars == <<places>>
transformVars == <<upstream>>
planVars == <<plan, planned>>
threadVars == <<thread>>
vars == <<now, limiterVars, cacheVars, calls, lastOp, arg, ret, requestVars,
          indexVars, transformVars, planVars, threadVars, historyVars, lastSet>>

\* what a call of the limiter leaves alone besides the limiter and what its
\* caller does after it
callerVars == <<ttl, rquery, rlimit, evicted, indexVars, transformVars, planVars>>

(***************************************************************************)
(* Bounds and program constants                                            *)
(***************************************************************************)
MaxCalls == 5                  \* calls and clock advances of one behaviour of the limiter
MaxCacheCalls == 6             \* steps of one behaviour of the cache
MaxSearchCalls == 2            \* steps of one behaviour of the search handler
MaxRequests == 2               \* requests in flight at once
MaxResults == 2                \* largest max_results asked for
MaxCatalog == 3                \* places in the catalog
MaxIndexCalls == 2             \* steps of one behaviour of the similarity search
MaxSeqCalls == 7               \* calls and clock advances of one sequence of check() and record()
MaxRaceCalls == 7              \* calls of one behaviour of the limiter within one second
MaxOpenAICalls == 5            \* calls and clock advances of one behaviour of call_openai
MaxReadCalls == 3               \* requests, get() calls and clock advances of one behaviour of the cache in use
MaxPlanCalls == 4              \* steps of one behaviour of create_plan
MaxPlaces == 2                 \* places in an upstream response that is transformed
MaxTransformCalls == 1         \* steps of one behaviour of the transformation

MinuteSpan == 60               \* minute_ago = now - 60
DaySpan == 86400               \* day_ago = now - 86400
CACHE_TTL_SECONDS == 1800      \* 30 * 60
GOOGLE_RATE_LIMIT_PER_MINUTE == 60
GOOGLE_RATE_LIMIT_PER_DAY == 1000
OPENAI_RATE_LIMIT_PER_MINUTE == 60
OPENAI_RATE_LIMIT_PER_DAY == 1000

PerMinuteVals == {0, 1, 2}
PerDayVals == {0, 1, 2, 100}
LimiterDeltas == {1, MinuteSpan, DaySpan - MinuteSpan}

LimiterName == "Google"        \* google_limiter = RateLimiter(..., "Google")
None == <<>>                   \* a call that returns nothing

\* queries are strings, as sequences of characters
Whitespace == {" ", "\t", "\n"}
Queries ==
    { <<"A", "b">>,             \* "Ab"
      <<" ", "a", "B", " ">>,   \* " aB "
      <<"a", " ", "b">> }       \* "a b"
\* payloads are lists of result records
Payloads == { <<"r1">>, <<"r2", "r3">> }
CacheDeltas == {1, CACHE_TTL_SECONDS - 1}

Requests == 1..MaxRequests
SearchQueries == { <<"A", "b">>, <<" ", "a", "B", " ">> }
SearchDeltas == {MinuteSpan + 1, CACHE_TTL_SECONDS}
\* the places the upstream API knows, best match first
UpstreamPlaces ==
    [i \in 1..MaxResults |-> [id |-> <<"place", i>>, priceLevel |-> <<>>]]

(***************************************************************************)
(* RateLimiter                                                             *)
(***************************************************************************)
\* mutant: the comparison is never true, the windows are never pruned
head_expired_never(w, cutoff) == FALSE

\* the comparison "w[0] < cutoff" of _clean_windows
head_expired(w, cutoff) == Head(w) < cutoff

\* the test "w and w[0] < cutoff" of a loop of _clean_windows
loop_test(w, cutoff) == w # <<>> /\ head_expired(w, cutoff)

\* the loop "while w and w[0] < cutoff: w.popleft()" when no other thread
\* runs during it
RECURSIVE PopExpired(_, _)
PopExpired(w, cutoff) ==
    IF loop_test(w, cutoff)
    THEN PopExpired(Tail(w), cutoff)
    ELSE w

\* _clean_windows at clock value t, as the pair of windows it leaves
clean_windows(mw, dw, t) ==
    <<PopExpired(mw, t - MinuteSpan), PopExpired(dw, t - DaySpan)>>

\* the f-strings of check()
MinuteReason(name, limit) == <<name, "rate limit exceeded:", limit, "/minute">>
DayReason(name, limit) == <<name, "rate limit exceeded:", limit, "/day">>

\* mutant: the per-day comparison is missing
check_result_minuteOnly(mw, dw, pm, pd) ==
    IF Len(mw) >= pm
    THEN [allowed |-> FALSE, reason |-> MinuteReason(LimiterName, pm)]
    ELSE [allowed |-> TRUE, reason |-> <<>>]

\* mutant: the per-day comparison comes first
check_result_dayFirst(mw, dw, pm, pd) ==
    IF Len(dw) >= pd
    THEN [allowed |-> FALSE, reason |-> DayReason(LimiterName, pd)]
    ELSE IF Len(mw) >= pm
    THEN [allowed |-> FALSE, reason |-> MinuteReason(LimiterName, pm)]
    ELSE [allowed |-> TRUE, reason |-> <<>>]

\* mutant: a window that is exactly at its limit still allows
check_result_offByOne(mw, dw, pm, pd) ==
    IF Len(mw) > pm
    THEN [allowed |-> FALSE, reason |-> MinuteReason(LimiterName, pm)]
    ELSE IF Len(dw) > pd
    THEN [allowed |-> FALSE, reason |-> DayReason(LimiterName, pd)]
    ELSE [allowed |-> TRUE, reason |-> <<>>]

\* the comparisons of check() on the windows _clean_windows left
check_result(mw, dw, pm, pd) ==
    IF Len(mw) >= pm
    THEN [allowed |-> FALSE, reason |-> MinuteReason(LimiterName, pm)]
    ELSE IF Len(dw) >= pd
    THEN [allowed |-> FALSE, reason |-> DayReason(LimiterName, pd)]
    ELSE [allowed |-> TRUE, reason |-> <<>>]

\* the dict status() returns
status_result(mw, dw, pm, pd) ==
    [minute_used |-> Len(mw), minute_limit |-> pm,
     day_used |-> Len(dw), day_limit |-> pd]

\* mutant: record() refuses to go past the per-minute limit
record_windows_capped(mw, dw, t) ==
    IF Len(mw) >= per_minute THEN <<mw, dw>> ELSE <<Append(mw, t), Append(dw, t)>>

\* the appends of record()
record_windows(mw, dw, t) == <<Append(mw, t), Append(dw, t)>>

DeniedBound(r) == IF r.allowed THEN "" ELSE r.reason[4]

\* mutant: the exception carries a fixed detail, not the one it is given
HTTPException_fixedDetail(status_code, detail) ==
    [status |-> status_code, body |-> <<"Too Many Requests">>]

\* "raise HTTPException(status_code, detail)" and "return results"
HTTPException(status_code, detail) == [status |-> status_code, body |-> detail]
Returned(results) == [status |-> 200, body |-> results]

\* json.loads: the value of a JSON text, or JSONDecodeError
json_loads(text) ==
    IF text[1] = "json"
    THEN [ok |-> TRUE, value |-> text[2]]
    ELSE [ok |-> FALSE, value |-> <<>>]

\* openai_limiter = RateLimiter(..., "OpenAI")
OpenAIName == "OpenAI"

(***************************************************************************)
(* Threads.  The async handlers (search_google_places, call_openai,        *)
(* create_plan) run in the event-loop thread, one at a time between their  *)
(* awaits; health_check is a "def" endpoint, so every GET /health runs in  *)
(* a worker thread of its own and calls status() there.  RateLimiter has   *)
(* no lock, and time.time() is read once per call.                         *)
(***************************************************************************)
Workers == {"health1", "health2"}
Threads == {"loop"} \cup Workers
CallsOf(t) == IF t = "loop" THEN {"check", "record"} ELSE {"status"}

\* a thread that is in no call of the limiter.  A call is made from an
\* endpoint that only reports it (from is ""), or from search_google_places
\* for request req, or from call_openai; these go on after it, with reply
\* the upstream reply they hold
Idle == <<"", "idle">>
NoCall ==
    [at |-> Idle, op |-> "", now |-> 0, seen |-> <<>>,
     from |-> "", req |-> 0, reply |-> <<>>]

\* call_openai is in "openai_client.chat.completions.create(...)", a call
\* that blocks the event-loop thread
InCreate == [NoCall EXCEPT !.at = <<"", "create">>, !.from = "call_openai"]

\* deque.popleft() on an empty deque
IndexError == [raised |-> "IndexError"]

\* the clock advances by d seconds, at any point of any call
Tick(d) ==
    /\ now' = now + d
    /\ lastOp' = "tick"
    /\ ret' = None
    /\ calls' = calls + 1
    /\ arg' = None
    /\ UNCHANGED <<limiterVars, historyVars, cacheVars, lastSet>>
    /\ UNCHANGED <<requestVars, indexVars, transformVars, planVars, threadVars>>

\* where create_plan stands before its loops, and what it raised there
NotCalled == [at |-> "new", raised |-> [status |-> 0]]
InModel == [at |-> "create", raised |-> [status |-> 0]]
InLoops == [at |-> "lookups", raised |-> [status |-> 0]]
Raised(e) == [at |-> "raised", raised |-> e]

(***************************************************************************)
(* SearchCache                                                             *)
(***************************************************************************)
\* str.lower() on one character
LowerChar(c) ==
    CASE c = "A" -> "a"
      [] c = "B" -> "b"
      [] OTHER -> c

lower(q) == [i \in 1..Len(q) |-> LowerChar(q[i])]

RECURSIVE lstrip(_)
lstrip(q) == IF q # <<>> /\ Head(q) \in Whitespace THEN lstrip(Tail(q)) ELSE q

RECURSIVE rstrip(_)
rstrip(q) ==
    IF q # <<>> /\ q[Len(q)] \in Whitespace
    THEN rstrip(SubSeq(q, 1, Len(q) - 1))
    ELSE q

\* str.strip()
strip(q) == rstrip(lstrip(q))

\* hashlib.md5(...).hexdigest(): the digest is taken to be free of collisions
md5_hexdigest(q) == <<"md5", q>>

\* mutant: the query is lower-cased and not stripped
make_key_unstripped(query) == md5_hexdigest(lower(query))

\* mutant: the query is stripped and not lower-cased
make_key_caseSensitive(query) == md5_hexdigest(strip(query))

\* SearchCache._make_key
make_key(query) == md5_hexdigest(strip(lower(query)))

\* "del self.cache[key]"
Without(c, key) == [k \in DOMAIN c \ {key} |-> c[k]]

\* "self.cache[key] = (timestamp, data)"
With(c, key, timestamp, data) ==
    [k \in DOMAIN c \cup {key} |->
        IF k = key THEN [timestamp |-> timestamp, data |-> data] ELSE c[k]]

Found(data) == [found |-> TRUE, data |-> data]
NotFound == [found |-> FALSE, data |-> <<>>]     \* Python's None

\* mutant: "<=" for "<", an entry is served at the age of ttl
is_fresh_inclusive(timestamp, t, life) == t - timestamp <= life

\* the test "time.time() - timestamp < self.ttl" of get()
is_fresh(timestamp, t, life) == t - timestamp < life

\* mutant: a hit refreshes the insertion time of the entry it serves
get_store_touches(c, query, t, life) ==
    LET key == make_key(query)
    IN IF key \notin DOMAIN c THEN c
       ELSE IF is_fresh(c[key].timestamp, t, life)
       THEN With(c, key, t, c[key].data)
       ELSE Without(c, key)

\* mutant: an expired entry is reported absent and left in the store
get_store_keepsExpired(c, query, t, life) == c

\* SearchCache.get: what it returns
get_result(c, query, t, life) ==
    LET key == make_key(query)
    IN IF key \in DOMAIN c /\ is_fresh(c[key].timestamp, t, life)
       THEN Found(c[key].data)
       ELSE NotFound

\* SearchCache.get: the store it leaves
get_store(c, query, t, life) ==
    LET key == make_key(query)
    IN IF key \in DOMAIN c /\ ~is_fresh(c[key].timestamp, t, life)
       THEN Without(c, key)
       ELSE c

\* mutant: set() keeps the entry the key already has (dict.setdefault)
set_store_keepsOld(c, query, data, t) ==
    IF make_key(query) \in DOMAIN c THEN c ELSE With(c, make_key(query), t, data)

\* SearchCache.set: the store it leaves
set_store(c, query, data, t) == With(c, make_key(query), t, data)

\* mutant: ">" for ">=", an entry exactly ttl seconds old survives the sweep
clear_expired_store_exclusive(c, t, life) ==
    LET expired == {k \in DOMAIN c : t - c[k].timestamp > life}
    IN [k \in DOMAIN c \ expired |-> c[k]]

\* SearchCache.clear_expired: the store it leaves
clear_expired_store(c, t, life) ==
    LET expired == {k \in DOMAIN c : t - c[k].timestamp >= life}
    IN [k \in DOMAIN c \ expired |-> c[k]]

NeverSet == [at |-> -1, seq |-> 0, data |-> <<>>]

Get(q) ==
    /\ ret' = get_result(cache, q, now, ttl)
    /\ cache' = get_store(cache, q, now, ttl)
    /\ lastOp' = "get"
    /\ arg' = q
    /\ calls' = calls + 1
    /\ UNCHANGED <<now, ttl, limiterVars, historyVars, lastSet>>
    /\ UNCHANGED <<requestVars, indexVars, transformVars, planVars, threadVars>>

Set(q, data) ==
    /\ cache' = set_store(cache, q, data, now)
    /\ lastSet' = [lastSet EXCEPT ![q] = [at |-> now, seq |-> calls + 1, data |-> data]]
    /\ ret' = None
    /\ lastOp' = "set"
    /\ arg' = q
    /\ calls' = calls + 1
    /\ UNCHANGED <<now, ttl, limiterVars, historyVars>>
    /\ UNCHANGED <<requestVars, indexVars, transformVars, planVars, threadVars>>

ClearExpired ==
    /\ cache' = clear_expired_store(cache, now, ttl)
    /\ ret' = None
    /\ lastOp' = "clear_expired"
    /\ arg' = None
    /\ calls' = calls + 1
    /\ UNCHANGED <<now, ttl, limiterVars, historyVars, lastSet>>
    /\ UNCHANGED <<requestVars, indexVars, transformVars, planVars, threadVars>>

\* a behaviour is followed for n steps
Within(n) == calls < n

\* the state after "places_cache = SearchCache()"
NothingCached ==
    /\ cache = <<>>
    /\ lastSet = [q \in Queries |-> NeverSet]
CacheInit == ttl = CACHE_TTL_SECONDS /\ NothingCached

\* the windows after "RateLimiter(...)", and after the check-then-record
\* pair of one earlier request, or of two, at time 0
NoneRecorded ==
    /\ minute_window = <<>>
    /\ day_window = <<>>
    /\ recorded = <<>>
OneRecorded ==
    /\ minute_window = <<0>>
    /\ day_window = <<0>>
    /\ recorded = <<0>>
TwoRecorded ==
    /\ minute_window = <<0, 0>>
    /\ day_window = <<0, 0>>
    /\ recorded = <<0, 0>>

\* the state before the first call, but for the clock, the store of the
\* cache, the windows and the limits of the limiter and the inputs of the
\* pure functions (catalog, upstream places, plan)
RestInit ==
    /\ ttl = CACHE_TTL_SECONDS
    /\ calls = 0
    /\ lastOp = "init"
    /\ arg = None
    /\ ret = None
    /\ admitted = FALSE
    /\ disciplined = TRUE
    /\ denied = {}
    /\ thread = [t \in Threads |-> NoCall]
    /\ pc = [r \in Requests |-> "new"]
    /\ rquery = [r \in Requests |-> None]
    /\ rlimit = [r \in Requests |-> 0]
    /\ evicted = [r \in Requests |-> FALSE]
    /\ response = [r \in Requests |-> None]

StartInit == now = 0 /\ NoneRecorded /\ NothingCached /\ RestInit

InitCache ==
    /\ StartInit
    /\ places = <<>>
    /\ upstream = <<>>
    /\ plan = <<>>
    /\ planned = NotCalled
    /\ per_minute = GOOGLE_RATE_LIMIT_PER_MINUTE
    /\ per_day = GOOGLE_RATE_LIMIT_PER_DAY

NextCache ==
    \/ \E q \in Queries : Within(MaxCacheCalls) /\ Get(q)
    \/ \E q \in Queries, data \in Payloads : Within(MaxCacheCalls) /\ Set(q, data)
    \/ Within(MaxCacheCalls) /\ ClearExpired
    \/ \E d \in CacheDeltas : Within(MaxCacheCalls) /\ Tick(d)

SpecCache == InitCache /\ [][NextCache]_vars

(***************************************************************************)
(* search_google_places                                                    *)
(***************************************************************************)
\* list[:n]
Prefix(list, n) == SubSeq(list, 1, IF n < Len(list) THEN n ELSE Len(list))

\* the strings the price-level chain looks for
INEXPENSIVE == <<"I", "N", "E", "X", "P", "E", "N", "S", "I", "V", "E">>
MODERATE == <<"M", "O", "D", "E", "R", "A", "T", "E">>
EXPENSIVE == <<"E", "X", "P", "E", "N", "S", "I", "V", "E">>
VERY_EXPENSIVE ==
    <<"V", "E", "R", "Y", "_", "E", "X", "P", "E", "N", "S", "I", "V", "E">>

\* the values of "priceLevel" in a place of the upstream response; the empty
\* string is what place.get("priceLevel", "") gives when there is none
PRICE_LEVEL_FREE ==
    <<"P", "R", "I", "C", "E", "_", "L", "E", "V", "E", "L", "_", "F", "R",
      "E", "E">>
PRICE_LEVEL_INEXPENSIVE ==
    <<"P", "R", "I", "C", "E", "_", "L", "E", "V", "E", "L", "_", "I", "N",
      "E", "X", "P", "E", "N", "S", "I", "V", "E">>
PRICE_LEVEL_MODERATE ==
    <<"P", "R", "I", "C", "E", "_", "L", "E", "V", "E", "L", "_", "M", "O",
      "D", "E", "R", "A", "T", "E">>
PRICE_LEVEL_EXPENSIVE ==
    <<"P", "R", "I", "C", "E", "_", "L", "E", "V", "E", "L", "_", "E", "X",
      "P", "E", "N", "S", "I", "V", "E">>
PRICE_LEVEL_VERY_EXPENSIVE ==
    <<"P", "R", "I", "C", "E", "_", "L", "E", "V", "E", "L", "_", "V", "E",
      "R", "Y", "_", "E", "X", "P", "E", "N", "S", "I", "V", "E">>
PRICE_LEVEL_UNSPECIFIED ==
    <<"P", "R", "I", "C", "E", "_", "L", "E", "V", "E", "L", "_", "U", "N",
      "S", "P", "E", "C", "I", "F", "I", "E", "D">>
PriceLevelStrings ==
    {<<>>, PRICE_LEVEL_FREE, PRICE_LEVEL_INEXPENSIVE, PRICE_LEVEL_MODERATE,
     PRICE_LEVEL_EXPENSIVE, PRICE_LEVEL_VERY_EXPENSIVE, PRICE_LEVEL_UNSPECIFIED}

\* Python's "needle in hay" on strings
contains(needle, hay) ==
    \E i \in 0..(Len(hay) - Len(needle)) : SubSeq(hay, i + 1, i + Len(needle)) = needle

\* an int where Python has "int | None": None, or the one-tuple of the int
Some(n) == <<n>>

\* the if/elif chain that parses the price level
price_level(price_level_str) ==
    IF contains(INEXPENSIVE, price_level_str) THEN Some(1)
    ELSE IF contains(MODERATE, price_level_str) THEN Some(2)
    ELSE IF contains(EXPENSIVE, price_level_str) THEN Some(3)
    ELSE IF contains(VERY_EXPENSIVE, price_level_str) THEN Some(4)
    ELSE None

\* the loop that turns the places of the upstream response into results
transform(found) ==
    [i \in 1..Len(found) |->
        [place_id |-> found[i].id,
         price_level |-> price_level(found[i].priceLevel)]]

\* what the awaited http_client.post can come back with for max_results = n:
\* httpx.RequestError, a response that is not 200, or a 200 response with no
\* place or with n places
UpstreamOutcomes(n) ==
    {[kind |-> "RequestError", status_code |-> 0, places |-> <<>>],
     [kind |-> "response", status_code |-> 500, places |-> <<>>]}
    \cup {[kind |-> "response", status_code |-> 200, places |-> Prefix(UpstreamPlaces, k)] :
            k \in {0, n}}

\* mutant: a response that is not 200 is cached as an empty result list
search_finish_cachesFailure(store, query, outcome, t) ==
    IF outcome.status_code # 200
    THEN [response |-> HTTPException(502, <<"Google Places API error:", outcome.status_code>>),
          cache |-> set_store(store, query, <<>>, t),
          stored |-> FALSE]
    ELSE [response |-> Returned(transform(outcome.places)),
          cache |-> set_store(store, query, transform(outcome.places), t),
          stored |-> TRUE]

\* search_google_places after google_limiter.record(): a response that is
\* not 200 raises 502; otherwise the places are transformed, stored with
\* places_cache.set at time t, and returned
search_finish(store, query, outcome, t) ==
    IF outcome.status_code # 200
    THEN [response |-> HTTPException(502, <<"Google Places API error:", outcome.status_code>>),
          cache |-> store,
          stored |-> FALSE]
    ELSE [response |-> Returned(transform(outcome.places)),
          cache |-> set_store(store, query, transform(outcome.places), t),
          stored |-> TRUE]

(***************************************************************************)
(* The calls of the limiter, from one point where the interpreter can      *)
(* switch threads to the next: after a call returns (time.time, popleft,   *)
(* len, append) and at the backward jump of a loop.                        *)
(***************************************************************************)
Window(which) == IF which = "minute" THEN minute_window ELSE day_window
Span(which) == IF which = "minute" THEN MinuteSpan ELSE DaySpan

\* a thread at the start of a call of the limiter, after "now = time.time()"
\* in _clean_windows or in record()
Begin(op, from, req, reply) ==
    [at |-> IF op = "record" THEN <<"", "append_minute">> ELSE <<"minute", "enter">>,
     op |-> op, now |-> now, seen |-> <<>>, from |-> from, req |-> req, reply |-> reply]

\* the thread goes on to the next step of its call
Continue(t, at, seen) ==
    /\ thread' = [thread EXCEPT ![t].at = at, ![t].seen = seen]
    /\ lastOp' = "step"
    /\ arg' = None
    /\ ret' = None
    /\ UNCHANGED <<admitted, denied, pc, response, cache, lastSet>>

\* call_openai after its openai_limiter.check(): an exception of check()
\* goes through, a denial raises 429, otherwise the model is called; and
\* after its openai_limiter.record(): json.loads of the reply, which returns
\* the plan or raises 500
call_openai_after(op, value, reply) ==
    IF op = "check"
    THEN IF value = IndexError THEN IndexError
         ELSE IF ~value.allowed
         THEN HTTPException(429, [value.reason EXCEPT ![1] = OpenAIName])
         ELSE value
    ELSE IF json_loads(reply).ok
         THEN Returned(json_loads(reply).value)
         ELSE HTTPException(500, <<"Failed to parse LLM response">>)

\* an exception that is not an HTTPException goes up through the handlers
\* and ends the request with a 500
Unhandled(e) == [status |-> 500, body |-> e]

\* search_google_places for request r after its google_limiter.check(): an
\* exception of check() goes through, a denial raises 429, otherwise the
\* request awaits http_client.post
SearchChecked(t, r, value) ==
    /\ thread' = [thread EXCEPT ![t] = NoCall]
    /\ arg' = rquery[r]
    /\ UNCHANGED <<cache, lastSet>>
    /\ IF value # IndexError /\ value.allowed
       THEN /\ pc' = [pc EXCEPT ![r] = "awaiting"]
            /\ lastOp' = "check"
            /\ ret' = value
            /\ UNCHANGED response
       ELSE /\ pc' = [pc EXCEPT ![r] = "done"]
            /\ lastOp' = "search_google_places"
            /\ ret' = r
            /\ response' = [response EXCEPT ![r] =
                              IF value = IndexError
                              THEN Unhandled(IndexError)
                              ELSE HTTPException(429, value.reason)]

\* history: the sets made so far are numbered in their order
SetsSoFar ==
    LET seqs == {lastSet[q].seq : q \in DOMAIN lastSet}
    IN CHOOSE n \in seqs : \A m \in seqs : m <= n

\* search_google_places for request r after its google_limiter.record()
SearchRecorded(t, r) ==
    LET f == search_finish(cache, rquery[r], thread[t].reply, now)
    IN /\ thread' = [thread EXCEPT ![t] = NoCall]
       /\ arg' = rquery[r]
       /\ pc' = [pc EXCEPT ![r] = "done"]
       /\ lastOp' = "search_google_places"
       /\ ret' = r
       /\ response' = [response EXCEPT ![r] = f.response]
       /\ cache' = f.cache
       /\ lastSet' = IF f.stored
                     THEN [lastSet EXCEPT ![rquery[r]] =
                             [at |-> now, seq |-> SetsSoFar + 1, data |-> f.response.body]]
                     ELSE lastSet

\* the call of thread t is over: it returned value, or raised it, and the
\* caller goes on
Return(t, value) ==
    /\ admitted' = IF thread[t].op = "check"
                   THEN value # IndexError /\ value.allowed
                   ELSE admitted
    /\ denied' = IF thread[t].op = "check" /\ value # IndexError /\ ~value.allowed
                 THEN denied \cup {DeniedBound(value)}
                 ELSE denied
    /\ CASE thread[t].from = "search_google_places" ->
              IF thread[t].op = "check"
              THEN SearchChecked(t, thread[t].req, value)
              ELSE SearchRecorded(t, thread[t].req)
         [] thread[t].from = "call_openai" ->
              /\ arg' = None
              /\ UNCHANGED <<pc, response, cache, lastSet>>
              /\ IF thread[t].op = "check" /\ value # IndexError /\ value.allowed
                 THEN /\ thread' = [thread EXCEPT ![t] = InCreate]
                      /\ lastOp' = "check"
                      /\ ret' = value
                 ELSE /\ thread' = [thread EXCEPT ![t] = NoCall]
                      /\ lastOp' = "call_openai"
                      /\ ret' = call_openai_after(thread[t].op, value, thread[t].reply)
         [] OTHER ->
              /\ arg' = None
              /\ UNCHANGED <<pc, response, cache, lastSet>>
              /\ thread' = [thread EXCEPT ![t] = NoCall]
              /\ lastOp' = thread[t].op
              /\ ret' = value

\* _clean_windows is over, with windows mw and dw; the caller reads
\* len(self.minute_window): check() returns if that is at the limit, status()
\* keeps it for the dict
AfterClean(t, mw, dw) ==
    IF thread[t].op = "check"
    THEN LET r == check_result(mw, dw, per_minute, per_day)
         IN IF ~r.allowed /\ DeniedBound(r) = "/minute"
            THEN Return(t, r)
            ELSE Continue(t, <<"", "compare_day">>, mw)
    ELSE Continue(t, <<"", "used_day">>, mw)

\* the loop of the day window is reached: when its test holds the first
\* popleft() follows with no switch in between
EnterDay(t, mw, dw) ==
    IF loop_test(dw, thread[t].now - DaySpan)
    THEN /\ day_window' = Tail(dw)
         /\ Continue(t, <<"day", "popped">>, <<>>)
    ELSE /\ day_window' = dw
         /\ AfterClean(t, mw, dw)

\* thread t calls check(), record() or status()
Call(t, op) ==
    /\ thread[t].at = Idle
    /\ op \in CallsOf(t)
    /\ thread' = [thread EXCEPT ![t] = Begin(op, "", 0, <<>>)]
    /\ lastOp' = "call"
    /\ ret' = None
    /\ arg' = None
    /\ calls' = calls + 1
    /\ UNCHANGED <<now, limiterVars, historyVars, cacheVars, lastSet>>
    /\ UNCHANGED <<requestVars, indexVars, transformVars, planVars>>

\* _clean_windows from the test of its first loop, up to the first popleft()
\* or, when nothing has expired, to the len() of the caller
CleanEnter(t) ==
    /\ thread[t].at = <<"minute", "enter">>
    /\ IF loop_test(minute_window, thread[t].now - MinuteSpan)
       THEN /\ minute_window' = Tail(minute_window)
            /\ day_window' = day_window
            /\ Continue(t, <<"minute", "popped">>, <<>>)
       ELSE /\ minute_window' = minute_window
            /\ EnterDay(t, minute_window, day_window)
    /\ UNCHANGED <<now, per_minute, per_day, recorded, disciplined, calls>>
    /\ UNCHANGED callerVars

\* a popleft() has returned: the test of the loop again, and the backward
\* jump when it holds; otherwise on to the next loop or to the caller
LoopTest(t, which) ==
    /\ thread[t].at = <<which, "popped">>
    /\ IF loop_test(Window(which), thread[t].now - Span(which))
       THEN /\ Continue(t, <<which, "jumped">>, <<>>)
            /\ UNCHANGED <<minute_window, day_window>>
       ELSE /\ minute_window' = minute_window
            /\ IF which = "minute"
               THEN EnterDay(t, minute_window, day_window)
               ELSE /\ day_window' = day_window
                    /\ AfterClean(t, minute_window, day_window)
    /\ UNCHANGED <<now, per_minute, per_day, recorded, disciplined, calls>>
    /\ UNCHANGED callerVars

\* the popleft() after the backward jump: the deque is as the other threads
\* left it
LoopPop(t, which) ==
    /\ thread[t].at = <<which, "jumped">>
    /\ IF Window(which) = <<>>
       THEN /\ Return(t, IndexError)
            /\ UNCHANGED <<minute_window, day_window>>
       ELSE /\ Continue(t, <<which, "popped">>, <<>>)
            /\ minute_window' = IF which = "minute" THEN Tail(minute_window) ELSE minute_window
            /\ day_window' = IF which = "day" THEN Tail(day_window) ELSE day_window
    /\ UNCHANGED <<now, per_minute, per_day, recorded, disciplined, calls>>
    /\ UNCHANGED callerVars

\* check(): "if len(self.day_window) >= self.per_day: return False, ..." and
\* "return True, ''"; seen is the minute window as the comparison before read it
CompareDay(t) ==
    /\ thread[t].at = <<"", "compare_day">>
    /\ Return(t, check_result(thread[t].seen, day_window, per_minute, per_day))
    /\ UNCHANGED <<now, limiterVars, recorded, disciplined, calls>>
    /\ UNCHANGED callerVars

\* status(): "day_used": len(self.day_window), and the return of the dict;
\* seen is the minute window as "minute_used" read it
UsedDay(t) ==
    /\ thread[t].at = <<"", "used_day">>
    /\ Return(t, status_result(thread[t].seen, day_window, per_minute, per_day))
    /\ UNCHANGED <<now, limiterVars, recorded, disciplined, calls>>
    /\ UNCHANGED callerVars

\* record(): "self.minute_window.append(now)"
AppendMinute(t) ==
    /\ thread[t].at = <<"", "append_minute">>
    /\ minute_window' = record_windows(minute_window, day_window, thread[t].now)[1]
    /\ thread' = [thread EXCEPT ![t].at = <<"", "append_day">>]
    /\ recorded' = Append(recorded, thread[t].now)
    /\ disciplined' = (disciplined /\ admitted)
    /\ admitted' = FALSE
    /\ denied' = {}
    /\ lastOp' = "step"
    /\ ret' = None
    /\ arg' = None
    /\ UNCHANGED <<now, per_minute, per_day, day_window, calls>>
    /\ UNCHANGED <<pc, response, cache, lastSet>>
    /\ UNCHANGED callerVars

\* record(): "self.day_window.append(now)"
AppendDay(t) ==
    /\ thread[t].at = <<"", "append_day">>
    /\ day_window' = record_windows(minute_window, day_window, thread[t].now)[2]
    /\ Return(t, None)
    /\ UNCHANGED <<now, per_minute, per_day, minute_window, recorded, disciplined, calls>>
    /\ UNCHANGED callerVars

Init ==
    /\ StartInit
    /\ places = <<>>
    /\ upstream = <<>>
    /\ plan = <<>>
    /\ planned = NotCalled
    /\ per_minute \in PerMinuteVals
    /\ per_day \in PerDayVals

Next ==
    \/ \E t \in Threads : \E op \in CallsOf(t) : Within(MaxCalls) /\ Call(t, op)
    \/ \E t \in Threads : CleanEnter(t)
    \/ \E t \in Threads : \E which \in {"minute", "day"} : LoopTest(t, which)
    \/ \E t \in Threads : \E which \in {"minute", "day"} : LoopPop(t, which)
    \/ \E t \in Threads : CompareDay(t)
    \/ \E t \in Threads : UsedDay(t)
    \/ \E t \in Threads : AppendMinute(t)
    \/ \E t \in Threads : AppendDay(t)
    \/ \E d \in LimiterDeltas : Within(MaxCalls) /\ Tick(d)

Spec == Init /\ [][Next]_vars

\* The sequences of check() and record() calls on one RateLimiter: the calls
\* of the event-loop thread, one after the other, with no status() call; the
\* clock advances between the calls and during them.
NextCalls ==
    \/ \E op \in CallsOf("loop") : Within(MaxSeqCalls) /\ Call("loop", op)
    \/ CleanEnter("loop")
    \/ \E which \in {"minute", "day"} : LoopTest("loop", which)
    \/ \E which \in {"minute", "day"} : LoopPop("loop", which)
    \/ CompareDay("loop")
    \/ AppendMinute("loop")
    \/ AppendDay("loop")
    \/ \E d \in LimiterDeltas : Within(MaxSeqCalls) /\ Tick(d)

SpecCalls == Init /\ [][NextCalls]_vars

\* the limiter with limits 2 and 100 after two check-then-record pairs at
\* time 0 and 86340 seconds without a call: both timestamps are out of the
\* minute window and not yet pruned
InitRace ==
    /\ now = DaySpan - MinuteSpan
    /\ per_minute = 2
    /\ per_day = 100
    /\ minute_window = <<0, 0>>
    /\ day_window = <<0, 0>>
    /\ recorded = <<0, 0>>
    /\ admitted = FALSE
    /\ disciplined = TRUE
    /\ denied = {}
    /\ thread = [t \in Threads |-> NoCall]
    /\ CacheInit
    /\ calls = 0
    /\ lastOp = "tick"
    /\ arg = None
    /\ ret = None
    /\ pc = [r \in Requests |-> "new"]
    /\ rquery = [r \in Requests |-> None]
    /\ rlimit = [r \in Requests |-> 0]
    /\ evicted = [r \in Requests |-> FALSE]
    /\ response = [r \in Requests |-> None]
    /\ places = <<>>
    /\ upstream = <<>>
    /\ plan = <<>>
    /\ planned = NotCalled

\* requests and /health probes that arrive within a second or two
NextRace ==
    \/ \E t \in Threads : \E op \in CallsOf(t) : Within(MaxRaceCalls) /\ Call(t, op)
    \/ \E t \in Threads : CleanEnter(t)
    \/ \E t \in Threads : \E which \in {"minute", "day"} : LoopTest(t, which)
    \/ \E t \in Threads : \E which \in {"minute", "day"} : LoopPop(t, which)
    \/ \E t \in Threads : CompareDay(t)
    \/ \E t \in Threads : UsedDay(t)
    \/ \E t \in Threads : AppendMinute(t)
    \/ \E t \in Threads : AppendDay(t)
    \/ Within(MaxRaceCalls) /\ Tick(1)

SpecRace == InitRace /\ [][NextRace]_vars

\* mutant: the limiter is asked before the cache is looked at
SearchStart_limiterFirst(r, query, max_results) ==
    /\ pc[r] = "new"
    /\ thread["loop"].at = Idle
    /\ pc' = [pc EXCEPT ![r] = "checking"]
    /\ thread' = [thread EXCEPT !["loop"] = Begin("check", "search_google_places", r, <<>>)]
    /\ evicted' = [evicted EXCEPT ![r] = FALSE]
    /\ rquery' = [rquery EXCEPT ![r] = query]
    /\ rlimit' = [rlimit EXCEPT ![r] = max_results]
    /\ lastOp' = "search_start"
    /\ arg' = query
    /\ ret' = r
    /\ calls' = calls + 1
    /\ UNCHANGED <<now, limiterVars, historyVars, cacheVars, lastSet, response>>
    /\ UNCHANGED <<indexVars, transformVars, planVars>>

\* search_google_places is called: "cached = places_cache.get(query)"; a hit
\* returns cached[:max_results] at once, a miss goes on to
\* "allowed, reason = google_limiter.check()"; what follows the check() is in
\* Return.  The event-loop thread runs one handler at a time up to its await.
SearchStart(r, query, max_results) ==
    /\ pc[r] = "new"
    /\ thread["loop"].at = Idle
    /\ cache' = get_store(cache, query, now, ttl)
    /\ evicted' = [evicted EXCEPT ![r] = (get_store(cache, query, now, ttl) # cache)]
    /\ LET cached == get_result(cache, query, now, ttl)
       IN IF cached.found
          THEN /\ response' = [response EXCEPT ![r] = Returned(Prefix(cached.data, max_results))]
               /\ pc' = [pc EXCEPT ![r] = "done"]
               /\ UNCHANGED thread
          ELSE /\ pc' = [pc EXCEPT ![r] = "checking"]
               /\ thread' = [thread EXCEPT !["loop"] =
                               Begin("check", "search_google_places", r, <<>>)]
               /\ UNCHANGED response
    /\ rquery' = [rquery EXCEPT ![r] = query]
    /\ rlimit' = [rlimit EXCEPT ![r] = max_results]
    /\ lastOp' = "search_start"
    /\ arg' = query
    /\ ret' = r
    /\ calls' = calls + 1
    /\ UNCHANGED <<now, limiterVars, historyVars, ttl, lastSet>>
    /\ UNCHANGED <<indexVars, transformVars, planVars>>

\* "await http_client.post(...)" is over: it raised httpx.RequestError, which
\* search_google_places turns into a 502, or it returned a response and
\* search_google_places calls google_limiter.record(); what follows the
\* record() is in Return
SearchResume(r, outcome) ==
    /\ pc[r] = "awaiting"
    /\ thread["loop"].at = Idle
    /\ IF outcome.kind = "RequestError"
       THEN /\ response' = [response EXCEPT ![r] =
                   HTTPException(502, <<"Failed to reach Google Places API:">>)]
            /\ pc' = [pc EXCEPT ![r] = "done"]
            /\ UNCHANGED thread
       ELSE /\ pc' = [pc EXCEPT ![r] = "recording"]
            /\ thread' = [thread EXCEPT !["loop"] =
                            Begin("record", "search_google_places", r, outcome)]
            /\ UNCHANGED response
    /\ lastOp' = "search_resume"
    /\ arg' = rquery[r]
    /\ ret' = r
    /\ UNCHANGED <<now, limiterVars, historyVars, cacheVars, lastSet, calls>>
    /\ UNCHANGED <<rquery, rlimit, evicted, indexVars, transformVars, planVars>>

\* the store after an earlier request for the first query was answered 200
\* with one place at time 0
OneCached ==
    LET q == <<"A", "b">>
        data == transform(Prefix(UpstreamPlaces, 1))
    IN /\ cache = set_store(<<>>, q, data, 0)
       /\ lastSet = [p \in Queries |->
                       IF p = q THEN [at |-> 0, seq |-> 0, data |-> data] ELSE NeverSet]

\* the service as constructed, at time 0; with a per-day limit of 1, right
\* after the one request of the day, which was answered 200 and is cached;
\* with limits 2 and GOOGLE_RATE_LIMIT_PER_DAY, right after one earlier
\* request whose response was not 200, or 61 seconds after two of them
InitSearch ==
    /\ RestInit
    /\ places = <<>>
    /\ upstream = <<>>
    /\ plan = <<>>
    /\ planned = NotCalled
    /\ per_minute \in {1, 2}
    /\ per_day \in {1, GOOGLE_RATE_LIMIT_PER_DAY}
    /\ \/ now = 0 /\ NoneRecorded /\ NothingCached
       \/ now = 0 /\ per_day = 1 /\ OneRecorded /\ OneCached
       \/ /\ per_minute = 2
          /\ per_day = GOOGLE_RATE_LIMIT_PER_DAY
          /\ NothingCached
          /\ \/ now = 0 /\ OneRecorded
             \/ now = MinuteSpan + 1 /\ TwoRecorded

\* requests of search_google_places with the max_results of create_plan and
\* with the largest, /health probes in their worker threads (health_check
\* calls google_limiter.status()), and time
NextSearch ==
    \/ \E r \in Requests, q \in SearchQueries, n \in {1, MaxResults} :
          Within(MaxSearchCalls) /\ SearchStart(r, q, n)
    \/ \E r \in Requests :
          \E outcome \in UpstreamOutcomes(rlimit[r]) : SearchResume(r, outcome)
    \/ \E t \in Workers : Within(MaxSearchCalls) /\ Call(t, "status")
    \/ \E t \in Threads : CleanEnter(t)
    \/ \E t \in Threads : \E which \in {"minute", "day"} : LoopTest(t, which)
    \/ \E t \in Threads : \E which \in {"minute", "day"} : LoopPop(t, which)
    \/ CompareDay("loop")
    \/ \E t \in Workers : UsedDay(t)
    \/ AppendMinute("loop")
    \/ AppendDay("loop")
    \/ \E d \in SearchDeltas : Within(MaxSearchCalls) /\ Tick(d)

SpecSearch == InitSearch /\ [][NextSearch]_vars

\* the store after an earlier request for the first query, with the largest
\* max_results, was answered 200 at time 0
PageCached ==
    LET q == <<"A", "b">>
        data == transform(Prefix(UpstreamPlaces, MaxResults))
    IN /\ cache = set_store(<<>>, q, data, 0)
       /\ lastSet = [p \in Queries |->
                       IF p = q THEN [at |-> 0, seq |-> 0, data |-> data] ELSE NeverSet]

\* the service one second after its first two requests, at time 0: one was
\* answered 200 and is cached, the response of the other was not 200
InitReads ==
    /\ RestInit
    /\ places = <<>>
    /\ upstream = <<>>
    /\ plan = <<>>
    /\ planned = NotCalled
    /\ per_minute = 2
    /\ per_day = GOOGLE_RATE_LIMIT_PER_DAY
    /\ now = 1
    /\ TwoRecorded
    /\ PageCached

\* the requests are numbered as they arrive: the first n have arrived
Arrived(n) == \A r \in 1..n : pc[r] # "new"

\* the cache in use: requests of search_google_places, which read it with
\* get() and fill it with set(), get() calls between the requests, /health
\* probes in their worker threads, and time, which takes the entry set at
\* time 0 to its expiry
NextReads ==
    \/ \E r \in Requests, q \in SearchQueries, n \in {1, MaxResults} :
          Within(MaxReadCalls) /\ Arrived(r - 1) /\ SearchStart(r, q, n)
    \/ \E r \in Requests :
          \E outcome \in UpstreamOutcomes(rlimit[r]) : SearchResume(r, outcome)
    \/ \E q \in Queries : Within(MaxReadCalls) /\ thread["loop"].at = Idle /\ Get(q)
    \/ \E t \in Workers : Within(MaxReadCalls) /\ Call(t, "status")
    \/ \E t \in Threads : CleanEnter(t)
    \/ \E t \in Threads : \E which \in {"minute", "day"} : LoopTest(t, which)
    \/ \E t \in Threads : \E which \in {"minute", "day"} : LoopPop(t, which)
    \/ CompareDay("loop")
    \/ \E t \in Workers : UsedDay(t)
    \/ AppendMinute("loop")
    \/ AppendDay("loop")
    \/ Within(MaxReadCalls) /\ Tick(CACHE_TTL_SECONDS - 1)

SpecReads == InitReads /\ [][NextReads]_vars

(***************************************************************************)
(* call_openai; in SpecOpenAI the limiter of the state is openai_limiter   *)
(***************************************************************************)
OpenAIDeltas == {1, MinuteSpan + 1}

\* an activity of the plan of the language model, and a day of it
Activity(description, search_query) ==
    [description |-> description, search_query |-> search_query]
DayData(day, activities) == [day |-> day, activities |-> activities]

\* what chat.completions.create can come back with: openai.APIError, or a
\* message whose content is the JSON text of a plan or is not JSON at all
ModelOutcomes ==
    {[kind |-> "APIError", content |-> <<>>],
     [kind |-> "content", content |-> <<"not json">>],
     [kind |-> "content", content |-> <<"json", <<>>>>],
     [kind |-> "content",
      content |-> <<"json", <<DayData(1, <<Activity("a1", <<"A", "b">>)>>)>>>>]}

\* mutant: json.loads comes before record(), so a reply that does not parse
\* raises 500 with nothing recorded
CreateReturns_parsesFirst(outcome) ==
    /\ thread["loop"] = InCreate
    /\ arg' = outcome
    /\ IF outcome.kind = "APIError"
       THEN /\ thread' = [thread EXCEPT !["loop"] = NoCall]
            /\ lastOp' = "call_openai"
            /\ ret' = HTTPException(502, <<"OpenAI API error:">>)
       ELSE IF json_loads(outcome.content).ok
       THEN /\ thread' = [thread EXCEPT !["loop"] =
                            Begin("record", "call_openai", 0, outcome.content)]
            /\ lastOp' = "step"
            /\ ret' = None
       ELSE /\ thread' = [thread EXCEPT !["loop"] = NoCall]
            /\ lastOp' = "call_openai"
            /\ ret' = HTTPException(500, <<"Failed to parse LLM response">>)
    /\ UNCHANGED <<now, limiterVars, historyVars, calls>>
    /\ UNCHANGED <<cacheVars, lastSet, requestVars, indexVars, transformVars, planVars>>

\* call_openai is called: "allowed, reason = openai_limiter.check()"; what
\* follows the check() is in Return
CallOpenAIStart ==
    /\ thread["loop"].at = Idle
    /\ thread' = [thread EXCEPT !["loop"] = Begin("check", "call_openai", 0, <<>>)]
    /\ lastOp' = "call"
    /\ ret' = None
    /\ arg' = None
    /\ calls' = calls + 1
    /\ UNCHANGED <<now, limiterVars, historyVars, cacheVars, lastSet>>
    /\ UNCHANGED <<requestVars, indexVars, transformVars, planVars>>

\* chat.completions.create is over: it raised openai.APIError, which
\* call_openai turns into a 502, or it returned a reply and call_openai calls
\* openai_limiter.record(); json.loads follows the record(), in Return.  arg
\* is what the model came back with.
CreateReturns(outcome) ==
    /\ thread["loop"] = InCreate
    /\ arg' = outcome
    /\ IF outcome.kind = "APIError"
       THEN /\ thread' = [thread EXCEPT !["loop"] = NoCall]
            /\ lastOp' = "call_openai"
            /\ ret' = HTTPException(502, <<"OpenAI API error:">>)
       ELSE /\ thread' = [thread EXCEPT !["loop"] =
                            Begin("record", "call_openai", 0, outcome.content)]
            /\ lastOp' = "step"
            /\ ret' = None
    /\ UNCHANGED <<now, limiterVars, historyVars, calls>>
    /\ UNCHANGED <<cacheVars, lastSet, requestVars, indexVars, transformVars, planVars>>

InitOpenAI ==
    /\ StartInit
    /\ per_minute \in {1, 2}
    /\ per_day \in {2, 3}
    /\ places = <<>>
    /\ upstream = <<>>
    /\ plan = <<>>
    /\ planned = NotCalled

\* requests that call call_openai, /health probes in their worker thread,
\* and time, which also passes while the model is being called
NextOpenAI ==
    \/ Within(MaxOpenAICalls) /\ CallOpenAIStart
    \/ \E outcome \in ModelOutcomes : CreateReturns(outcome)
    \/ \E t \in Workers : Within(MaxOpenAICalls) /\ Call(t, "status")
    \/ \E t \in Threads : CleanEnter(t)
    \/ \E t \in Threads : \E which \in {"minute", "day"} : LoopTest(t, which)
    \/ \E t \in Threads : \E which \in {"minute", "day"} : LoopPop(t, which)
    \/ CompareDay("loop")
    \/ \E t \in Workers : UsedDay(t)
    \/ AppendMinute("loop")
    \/ AppendDay("loop")
    \/ \E d \in OpenAIDeltas : Within(MaxOpenAICalls) /\ Tick(d)

SpecOpenAI == InitOpenAI /\ [][NextOpenAI]_vars

(***************************************************************************)
(* create_plan: "plan = await call_openai(...)", which raises or gives the  *)
(* plan, and then the lookups, calls of search_google_places with          *)
(* max_results = 1, one after the other: the k-th activity with a          *)
(* search_query is request k.  What create_plan returns is a function of   *)
(* the plan and of how its lookups were answered.                          *)
(***************************************************************************)
\* the plans json.loads can give: no day; an activity without search_query;
\* two lookups in one day around an activity without one; two days
PlanQueries == <<<<"A", "b">>, <<" ", "a", "B", " ">>>>
Plans ==
    {<<>>,
     <<DayData(1, <<Activity("a1", None)>>)>>,
     <<DayData(1, <<Activity("a1", PlanQueries[1]), Activity("a2", None),
                    Activity("a3", PlanQueries[2])>>)>>,
     <<DayData(1, <<Activity("a1", PlanQueries[1])>>),
       DayData(2, <<>>),
       DayData(3, <<Activity("a2", PlanQueries[2])>>)>>}

\* "if search_query:" over a list of activities: how many pass the test
\* among the first n
RECURSIVE count_lookups(_, _)
count_lookups(activities, n) ==
    IF n = 0 THEN 0
    ELSE count_lookups(activities, n - 1)
         + (IF activities[n].search_query # None THEN 1 ELSE 0)

\* the lookups made before day d of plan p
RECURSIVE lookups_before(_, _)
lookups_before(p, d) ==
    IF d <= 1 THEN 0
    ELSE lookups_before(p, d - 1)
         + count_lookups(p[d - 1].activities, Len(p[d - 1].activities))

\* the request that looks up activity a of day d, when it has a search_query
lookup_of(p, d, a) == lookups_before(p, d) + count_lookups(p[d].activities, a)

\* the queries of the lookups of plan p, in the order of the two loops
lookup_queries(p) ==
    [k \in 1..lookups_before(p, Len(p) + 1) |->
        LET d == CHOOSE d \in 1..Len(p) :
                    \E a \in 1..Len(p[d].activities) :
                        p[d].activities[a].search_query # None /\ lookup_of(p, d, a) = k
            a == CHOOSE a \in 1..Len(p[d].activities) :
                    p[d].activities[a].search_query # None /\ lookup_of(p, d, a) = k
        IN p[d].activities[a].search_query]

\* what "plan = await call_openai(request.query)" can meet: the values of
\* openai_limiter.check(), whose limiter is not the one of the state here
\* but RateLimiter(OPENAI_RATE_LIMIT_PER_MINUTE, OPENAI_RATE_LIMIT_PER_DAY,
\* "OpenAI") (the denial on the per-minute bound, the denial on the per-day
\* bound, the admission, and the IndexError of its pruning), and the replies
\* of the model
OpenAIChecks ==
    {[allowed |-> FALSE, reason |-> MinuteReason(OpenAIName, OPENAI_RATE_LIMIT_PER_MINUTE)],
     [allowed |-> FALSE, reason |-> DayReason(OpenAIName, OPENAI_RATE_LIMIT_PER_DAY)],
     [allowed |-> TRUE, reason |-> <<>>],
     IndexError}
PlanOutcomes ==
    {[kind |-> "APIError", content |-> <<>>],
     [kind |-> "content", content |-> <<"not json">>]}
    \cup {[kind |-> "content", content |-> <<"json", p>>] : p \in Plans}

\* the lookup the loops have reached: the first that is not answered yet; 0
\* before the loops, when a lookup raised what "except HTTPException" does
\* not catch, and when every lookup is answered and create_plan returns
next_lookup ==
    LET lookups == 1..Len(lookup_queries(plan))
        open == {k \in lookups : pc[k] # "done"}
    IN IF planned.at # "lookups" THEN 0
       ELSE IF \E k \in lookups : pc[k] = "done" /\ response[k] = Unhandled(IndexError) THEN 0
       ELSE IF open = {} THEN 0
       ELSE CHOOSE k \in open : \A o \in open : k <= o

\* mutant: no "except HTTPException: pass" and no "if results:", what the
\* lookup raised or an empty list is taken for the place
lookup_place_unguarded(act, r) ==
    IF r.status = 200 /\ r.body # <<>>
    THEN [summary |-> r.body[1], why |-> act.description]
    ELSE [summary |-> r.body, why |-> act.description]

\* the try block of an activity with a search_query whose lookup was
\* answered by r: PlaceSummary(**results[0], why=...) or None
lookup_place(act, r) ==
    IF r.status = 200 /\ r.body # <<>>
    THEN [summary |-> r.body[1], why |-> act.description]
    ELSE None

\* the days create_plan returns for plan p when its lookups were answered
\* as in responses
create_plan_days(p, responses) ==
    [d \in 1..Len(p) |->
        [day |-> p[d].day,
         activities |->
            [a \in 1..Len(p[d].activities) |->
                LET act == p[d].activities[a]
                IN [description |-> act.description,
                    place |-> IF act.search_query # None
                              THEN lookup_place(act, responses[lookup_of(p, d, a)])
                              ELSE None]]]]

\* create_plan is called: call_openai up to the call of the model; its
\* openai_limiter.check() returned value or raised it
PlanStart(value) ==
    /\ planned = NotCalled
    /\ thread["loop"].at = Idle
    /\ planned' = IF value = IndexError
                  THEN Raised(Unhandled(IndexError))
                  ELSE IF ~value.allowed
                  THEN Raised(call_openai_after("check", value, <<>>))
                  ELSE InModel
    /\ lastOp' = "create_plan"
    /\ arg' = None
    /\ ret' = value
    /\ calls' = calls + 1
    /\ UNCHANGED <<now, limiterVars, historyVars, cacheVars, lastSet>>
    /\ UNCHANGED <<requestVars, indexVars, transformVars, plan, threadVars>>

\* the model came back: openai.APIError raises 502; otherwise json.loads of
\* the reply, which raises 500 or gives the plan create_plan loops over
PlanModelReturns(outcome) ==
    /\ planned = InModel
    /\ thread["loop"].at = Idle
    /\ LET reply == IF outcome.kind = "APIError"
                    THEN HTTPException(502, <<"OpenAI API error:">>)
                    ELSE call_openai_after("record", None, outcome.content)
       IN /\ planned' = IF reply.status = 200 THEN InLoops ELSE Raised(reply)
          /\ plan' = IF reply.status = 200 THEN reply.body ELSE plan
    /\ lastOp' = "call_openai"
    /\ arg' = outcome
    /\ ret' = None
    /\ UNCHANGED <<now, limiterVars, historyVars, cacheVars, lastSet, calls>>
    /\ UNCHANGED <<requestVars, indexVars, transformVars, threadVars>>

\* create_plan up to the await of the lookup it has reached:
\* "results = await search_google_places(search_query, max_results=1)"
PlanLookupStart ==
    /\ next_lookup # 0
    /\ SearchStart(next_lookup, lookup_queries(plan)[next_lookup], 1)

\* create_plan from that await on
PlanLookupResume(outcome) ==
    /\ next_lookup # 0
    /\ SearchResume(next_lookup, outcome)

\* the service as constructed, at time 0; with a per-minute limit of 1,
\* right after one earlier request of search_google_places whose response
\* was not 200; or, with limits 2 and GOOGLE_RATE_LIMIT_PER_DAY, 61 seconds
\* after two of them
InitPlan ==
    /\ RestInit
    /\ NothingCached
    /\ per_minute \in {1, 2}
    /\ per_day \in {1, GOOGLE_RATE_LIMIT_PER_DAY}
    /\ \/ now = 0 /\ NoneRecorded
       \/ /\ per_minute = 1
          /\ per_day = GOOGLE_RATE_LIMIT_PER_DAY
          /\ now = 0
          /\ OneRecorded
       \/ /\ per_minute = 2
          /\ per_day = GOOGLE_RATE_LIMIT_PER_DAY
          /\ now = MinuteSpan + 1
          /\ TwoRecorded
    /\ places = <<>>
    /\ upstream = <<>>
    /\ plan = <<>>
    /\ planned = NotCalled

\* one request of create_plan, /health probes in their worker threads, and
\* time
NextPlan ==
    \/ \E value \in OpenAIChecks : Within(MaxPlanCalls) /\ PlanStart(value)
    \/ \E outcome \in PlanOutcomes : PlanModelReturns(outcome)
    \/ Within(MaxPlanCalls) /\ PlanLookupStart
    \/ \E outcome \in UpstreamOutcomes(1) : PlanLookupResume(outcome)
    \/ \E t \in Workers : Within(MaxPlanCalls) /\ Call(t, "status")
    \/ \E t \in Threads : CleanEnter(t)
    \/ \E t \in Threads : \E which \in {"minute", "day"} : LoopTest(t, which)
    \/ \E t \in Threads : \E which \in {"minute", "day"} : LoopPop(t, which)
    \/ CompareDay("loop")
    \/ \E t \in Workers : UsedDay(t)
    \/ AppendMinute("loop")
    \/ AppendDay("loop")
    \/ \E d \in SearchDeltas : Within(MaxPlanCalls) /\ Tick(d)

SpecPlan == InitPlan /\ [][NextPlan]_vars

(***************************************************************************)
(* The transformation of an upstream response, on its own                  *)
(***************************************************************************)
\* the lists data.get("places", []) can be: ids in order, any price level
UpstreamLists ==
    UNION {{[i \in 1..n |-> [id |-> <<"place", i>>, priceLevel |-> l[i]]] :
              l \in [1..n -> PriceLevelStrings]} : n \in 0..MaxPlaces}

Transform ==
    /\ lastOp' = "transform"
    /\ arg' = None
    /\ ret' = transform(upstream)
    /\ calls' = calls + 1
    /\ UNCHANGED <<now, limiterVars, cacheVars, requestVars, indexVars,
                   transformVars, planVars, threadVars, historyVars, lastSet>>

InitTransform ==
    /\ StartInit
    /\ per_minute = GOOGLE_RATE_LIMIT_PER_MINUTE
    /\ per_day = GOOGLE_RATE_LIMIT_PER_DAY
    /\ places = <<>>
    /\ upstream \in UpstreamLists
    /\ plan = <<>>
    /\ planned = NotCalled

NextTransform == Within(MaxTransformCalls) /\ Transform

SpecTransform == InitTransform /\ [][NextTransform]_vars

(***************************************************************************)
(* search_places.py: cosine_similarity and search                          *)
(***************************************************************************)
\* the embeddings a catalog entry can have, and the vectors model.encode can
\* return for a query: of the dimension of the catalog, shorter, longer or
\* empty
Embeddings == {<<1, 0>>, <<0, 1>>, <<1, 1>>, <<-1, 0>>, <<0, 0>>}
QueryVectors == {<<1, 0>>, <<1, 1>>, <<0, 0>>, <<1>>, <<1, 0, 1>>, <<>>}
TopKs == 0..(MaxCatalog + 1)

\* the lists of places: names in insertion order, any embeddings
Catalogs ==
    UNION {{[i \in 1..n |-> [name |-> i, embedding |-> e[i]]] :
              e \in [1..n -> Embeddings]} : n \in 0..MaxCatalog}

\* sum(a * b for a, b in zip(vec1, vec2)): zip stops at the shorter vector
RECURSIVE zip_dot(_, _)
zip_dot(vec1, vec2) ==
    IF vec1 = <<>> \/ vec2 = <<>>
    THEN 0
    ELSE Head(vec1) * Head(vec2) + zip_dot(Tail(vec1), Tail(vec2))

\* sum(a * a for a in vec): the square of the magnitude
RECURSIVE sum_squares(_)
sum_squares(vec) ==
    IF vec = <<>> THEN 0 ELSE Head(vec) * Head(vec) + sum_squares(Tail(vec))

\* the float 0.0 as a score
ZeroScore == [num |-> 0, den |-> 1]

\* mutant: no test of the magnitudes, the quotient is taken as it comes
cosine_similarity_unguarded(vec1, vec2) ==
    [num |-> zip_dot(vec1, vec2),
     den |-> sum_squares(vec1) * sum_squares(vec2)]

\* mutant: the dot product is not divided by the magnitudes
cosine_similarity_unnormalized(vec1, vec2) ==
    IF sum_squares(vec1) = 0 \/ sum_squares(vec2) = 0
    THEN ZeroScore
    ELSE [num |-> zip_dot(vec1, vec2), den |-> 1]

\* cosine_similarity: dot_product / (magnitude1 * magnitude2), or 0.0 when a
\* magnitude is 0; the quotient is num / sqrt(den)
cosine_similarity(vec1, vec2) ==
    IF sum_squares(vec1) = 0 \/ sum_squares(vec2) = 0
    THEN ZeroScore
    ELSE [num |-> zip_dot(vec1, vec2),
          den |-> sum_squares(vec1) * sum_squares(vec2)]

\* x < y on scores: t |-> t * |t| is increasing, and it takes num / sqrt(den)
\* to num * |num| / den
Abs(n) == IF n < 0 THEN -n ELSE n
score_less(x, y) == x.num * Abs(x.num) * y.den < y.num * Abs(y.num) * x.den

\* the loop of search: one result per place, in the order of the catalog
score_all(query_embedding, catalog) ==
    [i \in 1..Len(catalog) |->
        [place |-> catalog[i],
         score |-> cosine_similarity(query_embedding, catalog[i].embedding)]]

\* mutant: an unstable descending sort, equal scores come out last-first
RECURSIVE sort_by_score_tiesReversed(_)
sort_by_score_tiesReversed(results) ==
    IF results = <<>>
    THEN <<>>
    ELSE LET n == Len(results)
             sorted == sort_by_score_tiesReversed(SubSeq(results, 1, n - 1))
             x == results[n]
             k == Cardinality({i \in 1..Len(sorted) : score_less(x.score, sorted[i].score)})
         IN SubSeq(sorted, 1, k) \o <<x>> \o SubSeq(sorted, k + 1, Len(sorted))

\* results.sort(key=score, reverse=True): descending and stable, a result
\* goes behind the results before it in the list that score as much or more
RECURSIVE sort_by_score(_)
sort_by_score(results) ==
    IF results = <<>>
    THEN <<>>
    ELSE LET n == Len(results)
             sorted == sort_by_score(SubSeq(results, 1, n - 1))
             x == results[n]
             k == Cardinality({i \in 1..Len(sorted) : ~score_less(sorted[i].score, x.score)})
         IN SubSeq(sorted, 1, k) \o <<x>> \o SubSeq(sorted, k + 1, Len(sorted))

\* search, from the encoded query on: score, sort, results[:top_k]
search(query_embedding, catalog, top_k) ==
    Prefix(sort_by_score(score_all(query_embedding, catalog)), top_k)

\* mutant: the list of places itself is sorted, "places.sort(...)"
search_catalog_sortedInPlace(query_embedding, catalog) ==
    LET sorted == sort_by_score(score_all(query_embedding, catalog))
    IN [i \in 1..Len(sorted) |-> sorted[i].place]

\* the list 'places' when search returns: the loop reads it, the results go
\* to a new list, and it is the new list that is sorted and cut
search_catalog(query_embedding, catalog) == catalog

\* one call of search on the catalog; nothing in it raises
Search(query_embedding, top_k) ==
    /\ lastOp' = "search"
    /\ arg' = [query |-> query_embedding, top_k |-> top_k]
    /\ ret' = [kind |-> "return", value |-> search(query_embedding, places, top_k)]
    /\ places' = search_catalog(query_embedding, places)
    /\ calls' = calls + 1
    /\ UNCHANGED <<now, limiterVars, cacheVars, requestVars,
                   transformVars, planVars, threadVars, historyVars, lastSet>>

InitIndex ==
    /\ StartInit
    /\ per_minute = GOOGLE_RATE_LIMIT_PER_MINUTE
    /\ per_day = GOOGLE_RATE_LIMIT_PER_DAY
    /\ places \in Catalogs
    /\ upstream = <<>>
    /\ plan = <<>>
    /\ planned = NotCalled

NextIndex ==
    \E q \in QueryVectors, k \in TopKs : Within(MaxIndexCalls) /\ Search(q, k)

SpecIndex == InitIndex /\ [][NextIndex]_vars

(***************************************************************************)
(* Claims about the RateLimiter, checked under Spec, SpecCalls and SpecRace *)
(***************************************************************************)
\* the number of timestamps of s in the closed interval [lo, hi]
CountIn(s, lo, hi) ==
    Cardinality({i \in 1..Len(s) : lo <= s[i] /\ s[i] <= hi})

\* A closed window holds the most timestamps when it ends at one of them, so
\* the windows ending at a recorded timestamp or at the current time stand
\* for the windows ending at any time.
WindowEnds == {recorded[i] : i \in 1..Len(recorded)} \cup {now}

\* the last step ended a call of the kind named, which returned a result
Ended(op) == lastOp = op /\ ret # [raised |-> "IndexError"]

\* C1: in a sequence of check() and record() calls in which every record()
\* uses up one allowing check(), no 60-second window holds more than
\* per_minute recorded timestamps and no 86400-second window more than
\* per_day, whenever the clock advances.
C1_QuotaNeverExceeded ==
    disciplined =>
        \A T \in WindowEnds :
            /\ CountIn(recorded, T - MinuteSpan, T) <= per_minute
            /\ CountIn(recorded, T - DaySpan, T) <= per_day

\* C1 witness: a sequence with one record() per allowing check() that filled
\* a per-minute limit of 2 and, more than a minute later, was denied on the
\* per-day limit of 2.
C1_Witness ==
    /\ disciplined
    /\ per_minute = 2
    /\ per_day = 2
    /\ Len(recorded) = 2
    /\ Ended("check")
    /\ ~ret.allowed
    /\ "/minute" \in denied
    /\ "/day" \in denied

\* C3: a check() that returns allows exactly when both windows hold strictly
\* fewer timestamps than their limits; a limit of 0 denies in every state.
C3_AllowedIffBelowBothLimits ==
    Ended("check") =>
        /\ ret.allowed <=>
              (Len(minute_window) < per_minute /\ Len(day_window) < per_day)
        /\ (per_minute = 0 \/ per_day = 0) => ~ret.allowed

\* C3 witness: a denial with the minute window exactly at a non-zero limit and
\* the day window below its limit.
C3_Witness ==
    /\ Ended("check")
    /\ ~ret.allowed
    /\ per_minute > 0
    /\ Len(minute_window) = per_minute
    /\ Len(day_window) < per_day

NamesBound(reason, limit, unit) ==
    /\ Len(reason) = 4
    /\ reason[1] = LimiterName
    /\ reason[3] = limit
    /\ reason[4] = unit

\* exactly k check-then-record pairs and one more check, with no time passing:
\* a disciplined run of 2k+1 calls with k records that ends with a check
BackToBack(k) ==
    /\ disciplined
    /\ lastOp = "check"
    /\ Len(recorded) = k
    /\ calls = 2 * k + 1
    /\ now = 0

\* C4: a denial names the per-minute bound whenever the minute window is full
\* and the per-day bound only when the minute window is not full; an allowing
\* check() has an empty reason; with limits 2 and 100 three back-to-back
\* check-then-record pairs give allowed, allowed, denied on the minute bound.
C4_ReasonNamesTheBound ==
    Ended("check") =>
        /\ Len(minute_window) >= per_minute =>
              ~ret.allowed /\ NamesBound(ret.reason, per_minute, "/minute")
        /\ (Len(minute_window) < per_minute /\ Len(day_window) >= per_day) =>
              ~ret.allowed /\ NamesBound(ret.reason, per_day, "/day")
        /\ ret.allowed => ret.reason = <<>>
        /\ (per_minute = 2 /\ per_day = 100) =>
              /\ (BackToBack(0) \/ BackToBack(1)) => ret.allowed
              /\ BackToBack(2) =>
                    ~ret.allowed /\ NamesBound(ret.reason, 2, "/minute")

\* C4 witness: both windows full at once, and the denial that follows.
C4_Witness ==
    /\ Ended("check")
    /\ per_minute > 0
    /\ Len(minute_window) >= per_minute
    /\ Len(day_window) >= per_day
    /\ ~ret.allowed

\* C4 witness of the scenario: the third check of three back-to-back pairs.
C4_ScenarioReached ==
    per_minute = 2 /\ per_day = 100 /\ BackToBack(2) /\ ~ret.allowed

\* of the timestamps recorded so far: all are more than span seconds old at
\* time t; those less than, and those at most, span seconds old at time t
AllOlderThan(t, span) == \A i \in 1..Len(recorded) : recorded[i] < t - span
YoungerThan(t, span) == {i \in 1..Len(recorded) : recorded[i] > t - span}
NotOlderThan(t, span) == {i \in 1..Len(recorded) : recorded[i] >= t - span}

\* the step ends a check() that follows a denial on the bound named, with no
\* record() in between
CheckAfterDenial(unit) ==
    /\ lastOp' = "check"
    /\ unit \in denied

Raises(r) == r = [raised |-> "IndexError"]
Allows(r) == ~Raises(r) /\ r.allowed
DeniesOn(r, unit) == ~Raises(r) /\ ~r.allowed /\ r.reason[4] = unit

\* C5 as stated: after a per-minute denial and no record(), a check() made
\* when every timestamp of the minute window is more than 60 seconds old
\* allows, provided fewer than per_day timestamps are younger than 86400
\* seconds; after a per-day denial, a check() made when fewer than per_day
\* timestamps are at most 86400 seconds old is not denied on the per-day
\* bound.
C5_Original ==
    [][ /\ ( /\ CheckAfterDenial("/minute")
             /\ AllOlderThan(thread["loop"].now, MinuteSpan)
             /\ Cardinality(YoungerThan(thread["loop"].now, DaySpan)) < per_day )
           => Allows(ret')
        /\ ( /\ CheckAfterDenial("/day")
             /\ Cardinality(NotOlderThan(thread["loop"].now, DaySpan)) < per_day )
           => ~DeniesOn(ret', "/day")
      ]_vars

\* C5 amended: the same, for a per-minute limit of at least 1 and with the
\* timestamps that are exactly 86400 seconds old counted as used.
C5_CapacityFreesWithTime ==
    [][ /\ ( /\ CheckAfterDenial("/minute")
             /\ per_minute >= 1
             /\ AllOlderThan(thread["loop"].now, MinuteSpan)
             /\ Cardinality(NotOlderThan(thread["loop"].now, DaySpan)) < per_day )
           => Allows(ret')
        /\ ( /\ CheckAfterDenial("/day")
             /\ Cardinality(NotOlderThan(thread["loop"].now, DaySpan)) < per_day )
           => ~DeniesOn(ret', "/day")
      ]_vars

\* C5 witness: a check() that allows after a per-minute denial, with a
\* timestamp recorded and none recorded since the denial.
C5_Witness ==
    /\ Ended("check")
    /\ ret.allowed
    /\ "/minute" \in denied
    /\ per_minute >= 1
    /\ recorded # <<>>
    /\ minute_window = <<>>

\* the timestamps of w that _clean_windows keeps at the current time
Fresh(w, span) == SelectSeq(w, LAMBDA t : t >= now - span)

\* the timestamps that record() has appended to the window named: all that
\* were recorded, but for the day window while record() is between its two
\* appends
Appended(which) ==
    IF which = "day" /\ thread["loop"].at = <<"", "append_day">>
    THEN SubSeq(recorded, 1, Len(recorded) - 1)
    ELSE recorded

IsSuffix(s, w) ==
    /\ Len(s) <= Len(w)
    /\ s = SubSeq(w, Len(w) - Len(s) + 1, Len(w))

\* no timestamp that has not expired is missing from the windows
NothingFreshLost ==
    /\ IsSuffix(Fresh(Appended("minute"), MinuteSpan), minute_window)
    /\ IsSuffix(Fresh(Appended("day"), DaySpan), day_window)

\* C6: status() returns, with the two limits and with counts of timestamps
\* that were recorded; it removes no timestamp that has not expired and adds
\* none; and a check() returns what it would have returned without the
\* status() calls: it does not raise, and it allows only when fewer than
\* per_minute (per_day) recorded timestamps are at most 60 (86400) seconds old.
C6_StatusOnlyPrunes ==
    /\ lastOp = "status" =>
          /\ ret # [raised |-> "IndexError"]
          /\ ret.minute_limit = per_minute
          /\ ret.day_limit = per_day
          /\ ret.minute_used <= Len(recorded)
          /\ ret.day_used <= Len(recorded)
          /\ NothingFreshLost
    /\ lastOp = "check" =>
          /\ ret # [raised |-> "IndexError"]
          /\ ret.allowed =>
                /\ Len(Fresh(recorded, MinuteSpan)) < per_minute
                /\ Len(Fresh(recorded, DaySpan)) < per_day

\* the step is the first or the second append of record()
FirstAppend ==
    thread["loop"].at = <<"", "append_minute">> /\ thread'["loop"].at = <<"", "append_day">>
SecondAppend == lastOp' = "record"

\* C7: record() appends the time it read to the right end of the minute
\* window and then of the day window, and touches nothing else of them,
\* whatever the limits.
C7_RecordAppendsUnconditionally ==
    [][ /\ (thread["loop"].at = <<"", "idle">> /\ thread'["loop"].op = "record") =>
              thread'["loop"].now = now
        /\ FirstAppend =>
              /\ minute_window' = minute_window \o <<thread["loop"].now>>
              /\ day_window' = day_window
        /\ SecondAppend =>
              /\ day_window' = day_window \o <<thread["loop"].now>>
              /\ minute_window' = minute_window
      ]_vars

\* C7 witness: a record() without an allowing check() took the usage of both
\* windows above their limits.
C7_Witness ==
    /\ lastOp = "record"
    /\ ~disciplined
    /\ per_minute >= 1
    /\ Len(minute_window) > per_minute
    /\ Len(day_window) > per_day

\* thread t ends a call of the kind named, which returns a result
Returns(t, op) ==
    /\ thread[t].op = op
    /\ thread'[t] = NoCall
    /\ ret' # [raised |-> "IndexError"]

\* C22: when a check() or a status() returns, the minute window holds every
\* recorded timestamp that is at most 60 seconds old and none that was more
\* than 60 seconds old at the time the call read, and the day window the same
\* with 86400, in the order they were recorded; a timestamp exactly 60
\* (86400) seconds old is still there.
C22_WindowsAreTheRecentRecords ==
    [][ \A t \in Threads :
          (Returns(t, "check") \/ Returns(t, "status")) =>
              /\ NothingFreshLost'
              /\ \A i \in 1..Len(minute_window') :
                    minute_window'[i] >= thread[t].now - MinuteSpan
              /\ \A i \in 1..Len(day_window') :
                    day_window'[i] >= thread[t].now - DaySpan
      ]_vars

NonDecreasing(w) == \A i, j \in 1..Len(w) : i < j => w[i] <= w[j]

\* no thread is in a call of the limiter
Quiet == \A t \in DOMAIN thread : thread[t].at = <<"", "idle">>

\* no timestamp of w that has expired stands behind one that has not
NoExpiredBehindFresh(w, span) ==
    \A i, j \in 1..Len(w) : (i < j /\ w[i] >= now - span) => w[j] >= now - span

\* C23: both windows are non-decreasing; between calls the minute window is a
\* suffix of the day window; a status() reports minute_used <= day_used; and
\* in neither window an expired timestamp stands behind one that has not
\* expired.
C23_WindowsOrderedAndNested ==
    /\ NonDecreasing(minute_window)
    /\ NonDecreasing(day_window)
    /\ Quiet => IsSuffix(minute_window, day_window)
    /\ Ended("status") => ret.minute_used <= ret.day_used
    /\ NoExpiredBehindFresh(minute_window, MinuteSpan)
    /\ NoExpiredBehindFresh(day_window, DaySpan)

(***************************************************************************)
(* Claims about the SearchCache, checked under SpecCache                   *)
(***************************************************************************)
\* normalization as the claims state it: trim the surrounding whitespace,
\* then fold the case
Ink(q) == {i \in 1..Len(q) : q[i] \notin Whitespace}
Least(S) == CHOOSE i \in S : \A j \in S : i <= j
Greatest(S) == CHOOSE i \in S : \A j \in S : j <= i
Trimmed(q) == IF Ink(q) = {} THEN <<>> ELSE SubSeq(q, Least(Ink(q)), Greatest(Ink(q)))
FoldChar == ("A" :> "a") @@ ("B" :> "b")
Folded(q) == [i \in 1..Len(q) |-> IF q[i] \in DOMAIN FoldChar THEN FoldChar[q[i]] ELSE q[i]]
SameNormalized(p, q) == Folded(Trimmed(p)) = Folded(Trimmed(q))

\* the set() calls made so far with a query that normalizes as q does, and
\* the most recent of them
SetsFor(q) == {lastSet[p] : p \in {p \in Queries : SameNormalized(p, q)}} \ {NeverSet}
LatestSet(q) ==
    IF SetsFor(q) = {}
    THEN NeverSet
    ELSE CHOOSE s \in SetsFor(q) : \A o \in SetsFor(q) : o.seq <= s.seq

\* C8: a payload that get(q) returns is the payload of the most recent set()
\* for the normalized key of q, and that set() is less than ttl seconds old.
C8_GetNeverStale ==
    (lastOp = "get" /\ ret.found) =>
        /\ LatestSet(arg) # NeverSet
        /\ ret.data = LatestSet(arg).data
        /\ now - LatestSet(arg).at < ttl

\* C8 witness: a hit one second before expiry, on a key that was set twice
\* with different payloads.
C8_Witness ==
    /\ lastOp = "get"
    /\ ret.found
    /\ now - LatestSet(arg).at = ttl - 1
    /\ \E s \in SetsFor(arg) : s.data # ret.data

\* C9: a get(q') made less than ttl seconds after the latest set(q, v) with q
\* and q' equal after trimming and lower-casing returns v; a get(q') for a
\* normalized query that was never set returns absent.
C9_RoundTripUnderNormalization ==
    lastOp = "get" =>
        /\ (LatestSet(arg) # NeverSet /\ now - LatestSet(arg).at < ttl) =>
              ret.found /\ ret.data = LatestSet(arg).data
        /\ LatestSet(arg) = NeverSet => ~ret.found

\* C9 witness: set("Ab", v) answered get(" aB "), which was never set itself.
C9_Witness ==
    /\ lastOp = "get"
    /\ arg = <<" ", "a", "B", " ">>
    /\ lastSet[arg] = NeverSet
    /\ lastSet[<<"A", "b">>] # NeverSet
    /\ ret.found
    /\ ret.data = lastSet[<<"A", "b">>].data

\* C9 witness of the other case: a miss on "a b" while "Ab" is cached fresh.
C9_MissReached ==
    /\ lastOp = "get"
    /\ arg = <<"a", " ", "b">>
    /\ ~ret.found
    /\ LatestSet(<<"A", "b">>) # NeverSet
    /\ now - LatestSet(<<"A", "b">>).at < ttl

\* the latest set() for the key of q is at least ttl seconds old
ExpiredFor(q) == LatestSet(q) # NeverSet /\ now - LatestSet(q).at >= ttl

C10_AfterGet ==
    (lastOp = "get" /\ ExpiredFor(arg)) =>
        ~ret.found /\ make_key(arg) \notin DOMAIN cache

C10_FollowingCall ==
    (lastOp = "get" /\ ExpiredFor(arg)) =>
        /\ lastOp' = "clear_expired" =>
              make_key(arg) \notin (DOMAIN cache \ DOMAIN cache')
        /\ (lastOp' = "get" /\ arg' = arg) =>
              ~ret'.found /\ cache' = cache

\* C10: a get(q) made when the entry is ttl seconds old or older returns
\* absent and leaves no entry for the key; the clear_expired() that follows
\* removes nothing for it and the get(q) that follows is a miss again.
C10_ExpiredGetEvicts == []C10_AfterGet /\ [][C10_FollowingCall]_vars

\* C10 witness: a miss at the age of exactly ttl, the store emptied by it.
C10_Witness ==
    /\ lastOp = "get"
    /\ ~ret.found
    /\ LatestSet(arg) # NeverSet
    /\ now - LatestSet(arg).at = ttl
    /\ cache = <<>>

\* the entries of the store whose key is the digest of the normalized q
EntriesFor(c, q) == {k \in DOMAIN c : k = <<"md5", Folded(Trimmed(q))>>}

C11_AfterSet ==
    lastOp = "set" =>
        /\ Cardinality(EntriesFor(cache, arg)) = 1
        /\ \A k \in EntriesFor(cache, arg) :
              cache[k] = [timestamp |-> now, data |-> lastSet[arg].data]

C11_ServedForFullTtl ==
    (lastOp = "get" /\ LatestSet(arg) # NeverSet) =>
        (ret.found <=> now - LatestSet(arg).at < ttl)

\* C11: after set(q, v) the store holds exactly one entry for the normalized
\* key of q, with payload v and the current time, whatever was there before;
\* the entry is served until ttl seconds after this latest set().
C11_SetOverwrites == C11_AfterSet /\ C11_ServedForFullTtl

\* C11 witness: a set() over an expired entry that another spelling of the
\* query had stored, with a different payload.
C11_Witness ==
    /\ lastOp = "set"
    /\ \E s \in SetsFor(arg) : s.at + ttl <= now /\ s.data # lastSet[arg].data
    /\ cache[make_key(arg)].timestamp = now

\* C11 witness of the other case: a hit counted from the latest set(), made
\* when the set() before it for the same key is already ttl seconds old.
C11_ServedReached ==
    /\ lastOp = "get"
    /\ ret.found
    /\ \E s \in SetsFor(arg) : s.at + ttl <= now

\* the entries of c that are younger than ttl
Young(c) == {k \in DOMAIN c : now - c[k].timestamp < ttl}
LaterTimes == {now} \cup {now + d : d \in CacheDeltas}

\* C12: clear_expired() removes exactly the entries that are ttl seconds old
\* or older, leaves the others as they are, and no get() made after it, now
\* or later, returns anything else than it would have without the sweep.
C12_SweepRemovesExactlyExpired ==
    [][ lastOp' = "clear_expired" =>
          /\ DOMAIN cache' = Young(cache)
          /\ \A k \in DOMAIN cache' : cache'[k] = cache[k]
          /\ \A q \in Queries, t \in LaterTimes :
                get_result(cache', q, t, ttl) = get_result(cache, q, t, ttl)
      ]_vars

\* C12 witness: a sweep that removed one entry, exactly ttl seconds old, and
\* kept a younger one.
C12_Witness ==
    /\ lastOp = "clear_expired"
    /\ Cardinality(DOMAIN cache) = 1
    /\ \E q \in Queries : LatestSet(q) # NeverSet /\ now - LatestSet(q).at = ttl
    /\ \E q \in Queries : make_key(q) \in DOMAIN cache /\ now - LatestSet(q).at < ttl

SmallerOf(a, b) == IF a < b THEN a ELSE b

(***************************************************************************)
(* Claims about search_google_places, checked under SpecSearch             *)
(***************************************************************************)
\* C2: with several requests of search_google_places in flight, the admitted
\* and recorded calls of one 60-second window never exceed per_minute.
C2_AdmissionIsAtomic ==
    \A T \in WindowEnds : CountIn(recorded, T - MinuteSpan, T) <= per_minute

\* the request that the last step answered, and how
Answered ==
    /\ lastOp \in {"search_start", "search_resume", "search_google_places"}
    /\ pc[ret] = "done"
Failed == Answered /\ response[ret].status \in {429, 502}

\* a payload stored less than ttl seconds ago for the normalized key of q
HasFresh(q) == LatestSet(q) # NeverSet /\ now - LatestSet(q).at < ttl

\* the limiter is at a limit: a window holds as many unexpired timestamps as
\* its limit allows
MinuteFull == Len(Fresh(minute_window, MinuteSpan)) >= per_minute
DayFull == Len(Fresh(day_window, DaySpan)) >= per_day

\* the keys whose entry the step wrote: new, or not what it was
Written == {k \in DOMAIN cache' : k \notin DOMAIN cache \/ cache'[k] # cache[k]}

\* C13: a search_google_places call that finds a fresh cache entry is answered
\* from it, prefix of max_results records, without touching the limiter: the
\* two windows and the recorded timestamps are what they were, also when the
\* limiter is at a limit.
C13_HitsSpendNoBudget ==
    [][ (lastOp' = "search_start" /\ HasFresh(arg')) =>
          /\ pc'[ret'] = "done"
          /\ response'[ret'] =
                [status |-> 200, body |-> Prefix(LatestSet(arg').data, rlimit'[ret'])]
          /\ minute_window' = minute_window
          /\ day_window' = day_window
          /\ recorded' = recorded
          /\ thread' = thread
      ]_vars

\* C13 witness: a request answered 200 at once while the limiter is at its
\* per-minute limit.
C13_Witness ==
    /\ lastOp = "search_start"
    /\ pc[ret] = "done"
    /\ response[ret].status = 200
    /\ MinuteFull
    /\ HasFresh(arg)

\* the step answers request r
Answers(r) == pc[r] # "done" /\ pc'[r] = "done"

\* the step ends the check() of request r, which returned a value: a check()
\* that raises does so at the popleft() after a backward jump
Checked(r) ==
    /\ pc[r] = "checking"
    /\ pc'[r] # "checking"
    /\ thread["loop"].at[2] # "jumped"

\* C14: record() is called for a request whose upstream fetch succeeded,
\* together with cache.set, and not at all for a denied request, a response
\* that is not 200 or a transport error.
C14_RecordOnSuccessOnly ==
    [][ /\ \A r \in Requests :
              Answers(r) =>
                  /\ pc[r] = "recording" =>
                        /\ response'[r].status = 200
                        /\ cache'[<<"md5", Folded(Trimmed(rquery[r]))>>] =
                               [timestamp |-> now, data |-> response'[r].body]
                  /\ (response'[r].status = 200 /\ pc[r] # "new") => pc[r] = "recording"
        /\ recorded' # recorded =>
              \E r \in Requests : pc[r] = "recording" /\ thread["loop"].req = r
        /\ Written # {} => \E r \in Requests : pc[r] = "recording" /\ Answers(r)
      ]_vars

C15_OnlySuccessWrites ==
    [][ \A k \in Written :
          /\ lastOp' = "search_google_places"
          /\ response'[ret'].status = 200
          /\ k = <<"md5", Folded(Trimmed(arg'))>>
          /\ cache'[k] = [timestamp |-> now, data |-> response'[ret'].body]
      ]_vars

C15_FailureLeavesStore ==
    [][ Failed' => (cache' = cache /\ ~evicted'[ret']) ]_vars

C15_MissAfterFailure ==
    [][ (Failed /\ lastOp' = "search_start" /\ SameNormalized(arg', arg)) =>
          pc'[ret'] = "checking"
      ]_vars

\* C15 as stated: every entry was written after a 200 response for its query;
\* a denied request, a response that is not 200 or a transport error leaves
\* the store as it was from its lookup on; the request that follows one of
\* them for the same query is a miss, which goes on to the limiter and the
\* upstream.
C15_Original ==
    C15_OnlySuccessWrites /\ C15_FailureLeavesStore /\ C15_MissAfterFailure

\* the entries that are ttl seconds old or older and stored under the key of q
ExpiredEntries(q) ==
    {k \in EntriesFor(cache, q) : now - cache[k].timestamp >= ttl}

C15_FailureWritesNothing ==
    [][ /\ Failed' => cache' = cache
        /\ (DOMAIN cache) \ (DOMAIN cache') # {} =>
              /\ lastOp' = "search_start"
              /\ pc'[ret'] = "checking"
              /\ evicted'[ret']
              /\ Written = {}
              /\ (DOMAIN cache) \ (DOMAIN cache') \subseteq ExpiredEntries(arg')
      ]_vars

C15_HitOnlyFromSuccess ==
    [][ /\ lastOp' = "search_start" =>
              IF HasFresh(arg')
              THEN response'[ret'].body = Prefix(LatestSet(arg').data, rlimit'[ret'])
              ELSE pc'[ret'] = "checking" /\ thread'["loop"].op = "check"
        /\ \A r \in Requests :
              Checked(r) =>
                  IF admitted'
                  THEN pc'[r] = "awaiting"
                  ELSE pc'[r] = "done" /\ response'[r].status = 429
      ]_vars

\* C15: every entry was written after a 200 response for its query; a denied
\* request, a response that is not 200 or a transport error writes no entry,
\* and the only change one of them makes to the store is that the lookup of
\* the request, before its check(), evicts the expired entry of its own key;
\* the next request for the query is answered from the cache only if a
\* payload of a 200 response is stored for its key and younger than ttl, and
\* is otherwise a miss that goes on to the limiter and, when admitted, to the
\* upstream.
C15_CacheStoresOnlySuccess ==
    C15_OnlySuccessWrites /\ C15_FailureWritesNothing /\ C15_HitOnlyFromSuccess

\* C15 witness: a request that missed and goes on to the limiter right after
\* another request for the same key was answered 502, with an empty store.
C15_Witness ==
    /\ lastOp = "search_start"
    /\ pc[ret] = "checking"
    /\ cache = <<>>
    /\ \E r \in Requests :
          /\ pc[r] = "done"
          /\ response[r].status = 502
          /\ SameNormalized(rquery[r], arg)

\* C15 witness of the eviction: a denied request whose lookup removed the
\* expired entry of its key.
C15_EvictedOnDenial ==
    /\ lastOp = "search_google_places"
    /\ pc[ret] = "done"
    /\ response[ret].status = 429
    /\ evicted[ret]
    /\ LatestSet(arg) # NeverSet
    /\ cache = <<>>

\* C16: when the lookup misses and check() returns with a window at its
\* limit, the request is answered 429 with the reason of check(), which names
\* the limit that is reached; it never waits for the upstream, records no
\* timestamp and writes no cache entry; and with both windows below their
\* limits it goes on to the upstream.
C16_DenialIs429 ==
    [][ \A r \in Requests :
          Checked(r) =>
              IF Len(minute_window') >= per_minute \/ Len(day_window') >= per_day
              THEN /\ pc'[r] = "done"
                   /\ response'[r].status = 429
                   /\ IF Len(minute_window') >= per_minute
                      THEN NamesBound(response'[r].body, per_minute, "/minute")
                      ELSE NamesBound(response'[r].body, per_day, "/day")
                   /\ recorded' = recorded
                   /\ cache' = cache
                   /\ lastSet' = lastSet
              ELSE pc'[r] = "awaiting"
      ]_vars

\* C16 witness: a request denied on the per-day limit while the per-minute
\* window has room.
C16_Witness ==
    /\ lastOp = "search_google_places"
    /\ pc[ret] = "done"
    /\ response[ret].status = 429
    /\ response[ret].body[4] = "/day"
    /\ ~MinuteFull

\* C17: a request with limit n that finds a fresh cached payload of fewer
\* than n records is not answered from the cache.
C17_ShortPayloadNotServed ==
    [][ (/\ lastOp' = "search_start"
         /\ HasFresh(arg')
         /\ Len(LatestSet(arg').data) < rlimit'[ret']) =>
          ~(pc'[ret'] = "done" /\ response'[ret'].status = 200)
      ]_vars

\* a request ended with the IndexError of a check() whose popleft() found the
\* window emptied by a status() of a /health probe
CheckRaised == \E r \in Requests : pc[r] = "done" /\ response[r] = Unhandled(IndexError)

\* The hit of search_google_places is a get() followed by the cut to
\* max_results: it leaves the store as it is and returns the first
\* min(max_results, length) records of the payload of the latest set().
HitLeavesEntry ==
    [][ (lastOp' = "search_start" /\ HasFresh(arg')) =>
          /\ cache' = cache
          /\ Len(response'[ret'].body) =
                SmallerOf(rlimit'[ret'], Len(LatestSet(arg').data))
          /\ \A i \in 1..Len(response'[ret'].body) :
                response'[ret'].body[i] = LatestSet(arg').data[i]
      ]_vars

(***************************************************************************)
(* Claims about reads of the cache, checked under SpecReads                *)
(***************************************************************************)
\* request r is at its google_limiter.check(): its get() missed
Missed(r) == pc[r] = "checking"

\* a get() that hits returns the payload of the latest set() and leaves the
\* store as it is, payload and insertion time
C26_ReadLeavesStore ==
    [][ (lastOp' = "get" /\ ret'.found) =>
          /\ cache' = cache
          /\ ret'.data = LatestSet(arg').data
      ]_vars

\* every entry of the store is the latest set() for its key
C26_EntryIsTheLatestSet ==
    \A q \in Queries : \A k \in EntriesFor(cache, q) :
        cache[k] = [timestamp |-> LatestSet(q).at, data |-> LatestSet(q).data]

\* a read hits exactly when the latest set() for its key is less than ttl
\* seconds old, whatever reads came before it
C26_ExpiresAfterLastSet ==
    [][ /\ lastOp' = "get" => (ret'.found <=> HasFresh(arg'))
        /\ lastOp' = "search_start" =>
              /\ pc'[ret'] = "checking" <=> ~HasFresh(arg')
              /\ ~HasFresh(arg') => EntriesFor(cache', arg') = {}
      ]_vars

\* C26: a get() that hits leaves the store as it is, so every entry keeps the
\* payload and the insertion time of the latest set() for its key; a request
\* of search_google_places that hits leaves the store as it is and returns
\* the first min(max_results, length) records of that payload; and a read
\* made ttl seconds or more after the latest set() misses, whatever reads
\* came in between.
C26_ReadsDoNotRefresh ==
    /\ C26_ReadLeavesStore
    /\ HitLeavesEntry
    /\ []C26_EntryIsTheLatestSet
    /\ C26_ExpiresAfterLastSet

\* C26 witness: a request that was answered from the entry set at time 0,
\* one second or more after the set(), with fewer records than the payload
\* has, and a later request for the same key that misses exactly ttl seconds
\* after that set(), the only one.
C26_Witness ==
    \E h, r \in Requests :
        /\ pc[h] = "done"
        /\ response[h].status = 200
        /\ recorded = <<0, 0>>
        /\ Len(response[h].body) = 1
        /\ Len(LatestSet(rquery[h]).data) = MaxResults
        /\ Missed(r)
        /\ evicted[r]
        /\ make_key(rquery[r]) = make_key(rquery[h])
        /\ LatestSet(rquery[r]).seq = 0
        /\ now - LatestSet(rquery[r]).at = ttl

\* C26 witness of get(): a get() that hits, then time, then a get() for the
\* same key that misses exactly ttl seconds after the only set().
C26_GetReached ==
    /\ lastOp = "get"
    /\ ~ret.found
    /\ calls = 3
    /\ LatestSet(arg).seq = 0
    /\ now - LatestSet(arg).at = ttl
    /\ \A r \in Requests : pc[r] = "new"

(***************************************************************************)
(* Claims about the similarity search, checked under SpecIndex             *)
(***************************************************************************)
\* the cosine similarity of two vectors of one length, as num / sqrt(den)
Dot(a, b) ==
    LET RECURSIVE upto(_)
        upto(i) == IF i = 0 THEN 0 ELSE a[i] * b[i] + upto(i - 1)
    IN upto(Len(a))
Cosine(a, b) ==
    IF Dot(a, a) = 0 \/ Dot(b, b) = 0
    THEN [num |-> 0, den |-> 1]
    ELSE [num |-> Dot(a, b), den |-> Dot(a, a) * Dot(b, b)]

\* x < y for x = x.num / sqrt(x.den) and y alike, by signs and squares
Below(x, y) ==
    IF x.num < 0 /\ y.num >= 0 THEN TRUE
    ELSE IF x.num >= 0 /\ y.num < 0 THEN FALSE
    ELSE IF x.num >= 0
    THEN x.num * x.num * y.den < y.num * y.num * x.den
    ELSE x.num * x.num * y.den > y.num * y.num * x.den
SameScore(x, y) == ~Below(x, y) /\ ~Below(y, x)

\* every embedding of the catalog has the length of the query vector
DimensionsMatch == \A i \in 1..Len(places) : Len(places[i].embedding) = Len(arg.query)

\* C18: search with top_k = k over n places returns min(k, n) results, none
\* when the catalog is empty; each is a place of the catalog, no place twice,
\* with its cosine similarity to the query vector; the scores do not increase
\* along the list and no place left out scores higher than one returned.
C18_TopKByCosine ==
    (lastOp = "search" /\ DimensionsMatch) =>
        LET res == ret.value
            chosen == {res[i].place.name : i \in 1..Len(res)}
        IN /\ ret.kind = "return"
           /\ Len(res) = SmallerOf(arg.top_k, Len(places))
           /\ \A i \in 1..Len(res) :
                 /\ res[i].place.name \in 1..Len(places)
                 /\ res[i].place = places[res[i].place.name]
                 /\ SameScore(res[i].score, Cosine(arg.query, res[i].place.embedding))
           /\ Cardinality(chosen) = Len(res)
           /\ \A i, j \in 1..Len(res) : i < j => ~Below(res[i].score, res[j].score)
           /\ \A p \in (1..Len(places)) \ chosen : \A i \in 1..Len(res) :
                 ~Below(res[i].score, Cosine(arg.query, places[p].embedding))

\* C18 witness: two of three places returned, the second scoring less than
\* the first and the place left out less than the second.
C18_Witness ==
    /\ lastOp = "search"
    /\ DimensionsMatch
    /\ Len(places) = 3
    /\ Len(ret.value) = 2
    /\ Below(ret.value[2].score, ret.value[1].score)
    /\ \E p \in 1..Len(places) :
          Below(Cosine(arg.query, places[p].embedding), ret.value[2].score)

\* C18 witness of the empty catalog: no results and no error.
C18_EmptyReached ==
    /\ lastOp = "search"
    /\ places = <<>>
    /\ arg.top_k > 0
    /\ ret = [kind |-> "return", value |-> <<>>]

C19_TiesInCatalogOrder ==
    lastOp = "search" =>
        \A i, j \in 1..Len(ret.value) :
            (i < j /\ SameScore(ret.value[i].score, ret.value[j].score)) =>
                ret.value[i].place.name < ret.value[j].place.name

\* place p of the catalog comes before place q in the ranking for the query
\* vector v: its cosine similarity to v is higher, or it is the same and p
\* was inserted earlier; the rank of p is 1 + the number of places before it
Before(v, p, q) ==
    LET sp == Cosine(v, places[p].embedding)
        sq == Cosine(v, places[q].embedding)
    IN Below(sq, sp) \/ (SameScore(sp, sq) /\ p < q)
RankOf(v, p) == 1 + Cardinality({q \in 1..Len(places) : Before(v, q, p)})

\* the list search returns is fixed by the catalog, the query vector and
\* top_k: its i-th result is the place of rank i, with its score
C19_ResultIsTheRanking ==
    (lastOp = "search" /\ DimensionsMatch) =>
        /\ Len(ret.value) = SmallerOf(arg.top_k, Len(places))
        /\ \A i \in 1..Len(ret.value) :
              LET p == ret.value[i].place.name
              IN /\ p \in 1..Len(places)
                 /\ ret.value[i].place = places[p]
                 /\ RankOf(arg.query, p) = i
                 /\ SameScore(ret.value[i].score, Cosine(arg.query, places[p].embedding))

\* a call of search leaves the catalog as it found it;
\* a call with the arguments of the call before it returns the same list
C19_RepeatableAndPure ==
    [][ lastOp' = "search" =>
          /\ places' = places
          /\ (lastOp = "search" /\ arg' = arg) => ret' = ret
      ]_vars

\* C19: the list search returns is a function of the catalog, the query
\* vector and top_k alone, the places by descending score and, at equal
\* scores, in the order they have in the catalog, so that a repeated call
\* returns the same list; and search leaves the catalog as it is.
C19_Deterministic ==
    /\ []C19_TiesInCatalogOrder
    /\ []C19_ResultIsTheRanking
    /\ C19_RepeatableAndPure

\* C19 witness: a second call whose list has two places with different
\* embeddings and one score, not 0.
C19_Witness ==
    /\ lastOp = "search"
    /\ calls = 2
    /\ \E i, j \in 1..Len(ret.value) :
          /\ i < j
          /\ SameScore(ret.value[i].score, ret.value[j].score)
          /\ ret.value[i].score.num # 0
          /\ ret.value[i].place.embedding # ret.value[j].place.embedding

\* C20: a search whose query vector has another length than the embedding of
\* a place of the catalog fails; it returns no list of scores.
C20_MismatchIsFatal ==
    (lastOp = "search" /\ ~DimensionsMatch) => ret.kind = "raise"

\* a vector with no component other than 0, the empty vector included
AllZero(v) == \A i \in 1..Len(v) : v[i] = 0

\* the results of the last search whose place has an all-zero embedding, and
\* those that score above 0 or below 0
ZeroPlaced(res) == {i \in 1..Len(res) : AllZero(res[i].place.embedding)}
Positive(res) == {i \in 1..Len(res) : res[i].score.num > 0}
Negative(res) == {i \in 1..Len(res) : res[i].score.num < 0}

\* C21: cosine_similarity returns exactly 0.0 when either argument is all
\* zeros or empty, whatever the other is, and search scores a place with an
\* all-zero embedding 0.0 and ranks it so: behind every place that scores
\* above 0 and ahead of every place that scores below 0.
C21_ZeroVectorScoresZero ==
    lastOp = "search" =>
        /\ ret.kind = "return"
        /\ \A v \in Embeddings \cup QueryVectors :
              (AllZero(v) \/ AllZero(arg.query)) =>
                  /\ cosine_similarity(arg.query, v) = [num |-> 0, den |-> 1]
                  /\ cosine_similarity(v, arg.query) = [num |-> 0, den |-> 1]
        /\ \A i \in 1..Len(ret.value) :
              (AllZero(arg.query) \/ i \in ZeroPlaced(ret.value)) =>
                  ret.value[i].score = [num |-> 0, den |-> 1]
        /\ \A z \in ZeroPlaced(ret.value) :
              /\ \A i \in Positive(ret.value) : i < z
              /\ \A i \in Negative(ret.value) : z < i

\* C21 witness: a search that returned a place with an all-zero embedding
\* between a place scoring above 0 and one scoring below 0.
C21_Witness ==
    /\ lastOp = "search"
    /\ ~AllZero(arg.query)
    /\ \E z \in ZeroPlaced(ret.value) :
          /\ \E i \in Positive(ret.value) : i < z
          /\ \E i \in Negative(ret.value) : z < i

\* C21 witness of the empty query vector: every place scores 0.0 and the
\* list is in catalog order.
C21_EmptyQueryReached ==
    /\ lastOp = "search"
    /\ arg.query = <<>>
    /\ Len(ret.value) = 2
    /\ ret.value[1].place.name < ret.value[2].place.name

(***************************************************************************)
(* Claims about the transformation, checked under SpecTransform            *)
(***************************************************************************)
\* the documented scale: 1=cheap, 2=moderate, 3=expensive, 4=very expensive
DocumentedLevel(s) ==
    IF s = PRICE_LEVEL_INEXPENSIVE THEN <<1>>
    ELSE IF s = PRICE_LEVEL_MODERATE THEN <<2>>
    ELSE IF s = PRICE_LEVEL_EXPENSIVE THEN <<3>>
    ELSE IF s = PRICE_LEVEL_VERY_EXPENSIVE THEN <<4>>
    ELSE <<>>

\* C27: the result of a place has price_level 1 for PRICE_LEVEL_INEXPENSIVE,
\* 2 for PRICE_LEVEL_MODERATE, 3 for PRICE_LEVEL_EXPENSIVE, 4 for
\* PRICE_LEVEL_VERY_EXPENSIVE and none for a missing or unrecognized level.
C27_PriceLevelScale ==
    lastOp = "transform" =>
        /\ Len(ret) = Len(upstream)
        /\ \A i \in 1..Len(upstream) :
              ret[i].price_level = DocumentedLevel(upstream[i].priceLevel)

(***************************************************************************)
(* Claims about call_openai, checked under SpecOpenAI                      *)
(***************************************************************************)
\* the step ends the check() of call_openai; the step is the return of the
\* model call; the step ends call_openai
CheckEnds == thread["loop"].op = "check" /\ thread'["loop"].op # "check"
CreateEnds == thread["loop"] = InCreate /\ thread'["loop"] # InCreate
CallOpenAIEnds == lastOp' = "call_openai"

\* C25: a check() of call_openai that denies raises 429 with the model not
\* called and nothing recorded, and one that allows is followed by the call
\* of the model; when that call raises an API error call_openai raises 502
\* and records nothing; when it returns, record() is called with the time at
\* the return and appends it once, and only then the reply is parsed: the
\* plan is returned, or a reply that is not JSON raises 500 with its call
\* recorded.  Nothing else of call_openai records.
C25_RecordFollowsTheModelCall ==
    [][ /\ CheckEnds =>
              /\ recorded' = recorded
              /\ IF admitted'
                 THEN thread'["loop"] = InCreate
                 ELSE /\ CallOpenAIEnds
                      /\ thread'["loop"].at = <<"", "idle">>
                      /\ \/ ret' = [raised |-> "IndexError"]
                         \/ /\ ret'.status = 429
                            /\ ret'.body[1] = "OpenAI"
                            /\ ret'.body[4] \in {"/minute", "/day"}
        /\ CreateEnds =>
              /\ recorded' = recorded
              /\ minute_window' = minute_window
              /\ day_window' = day_window
              /\ IF arg'.kind = "APIError"
                 THEN /\ CallOpenAIEnds
                      /\ ret'.status = 502
                      /\ thread'["loop"].at = <<"", "idle">>
                 ELSE /\ thread'["loop"].op = "record"
                      /\ thread'["loop"].at = <<"", "append_minute">>
                      /\ thread'["loop"].now = now
                      /\ thread'["loop"].reply = arg'.content
        /\ thread'["loop"].op = "record" => thread["loop"].op = "record" \/ CreateEnds
        /\ recorded' # recorded =>
              /\ thread["loop"].at = <<"", "append_minute">>
              /\ thread'["loop"].at = <<"", "append_day">>
              /\ recorded' = Append(recorded, thread["loop"].now)
              /\ minute_window' = Append(minute_window, thread["loop"].now)
        /\ (CallOpenAIEnds /\ ~CheckEnds /\ ~CreateEnds) =>
              /\ thread["loop"].at = <<"", "append_day">>
              /\ day_window' = Append(day_window, thread["loop"].now)
              /\ recorded' = recorded
              /\ IF thread["loop"].reply[1] = "json"
                 THEN ret' = [status |-> 200, body |-> thread["loop"].reply[2]]
                 ELSE ret'.status = 500
      ]_vars

\* C25 witness: a reply that is not JSON raised 500 and is the second
\* recorded call of the minute.
C25_Witness ==
    /\ lastOp = "call_openai"
    /\ ret.status = 500
    /\ Len(minute_window) = 2
    /\ minute_window[2] = now
    /\ recorded = minute_window

\* C25 witness of the denial: a 429 after a recorded call and an API error.
C25_DenialReached ==
    /\ lastOp = "call_openai"
    /\ ret.status = 429
    /\ calls = 3
    /\ Len(recorded) = 1

\* C25 witness of the time the model takes: the check() at time 1 kept the
\* timestamp 0 and the record() came 61 seconds later.
C25_RecordedAfterTheWait ==
    /\ lastOp = "call_openai"
    /\ ret.status = 200
    /\ minute_window = <<0, MinuteSpan + 2>>
    /\ day_window = <<0, MinuteSpan + 2>>

\* C25 witness of a /health probe during the model call: its status() pruned
\* the minute window before the record().
C25_ProbedDuringTheWait ==
    /\ lastOp = "call_openai"
    /\ ret.status = 200
    /\ minute_window = <<MinuteSpan + 2>>
    /\ day_window = <<0, MinuteSpan + 2>>

(***************************************************************************)
(* Claims about create_plan, checked under SpecPlan                        *)
(***************************************************************************)
\* the activities of the plan as (day, position) pairs, and those of them
\* that have a search_query, in plan order
Slots == {<<d, a>> : d \in 1..Len(plan), a \in 1..MaxRequests + 1}
PlanActivities == {s \in Slots : s[2] <= Len(plan[s[1]].activities)}
Searched == {s \in PlanActivities : plan[s[1]].activities[s[2]].search_query # <<>>}
Earlier(s, t) == s[1] < t[1] \/ (s[1] = t[1] /\ s[2] < t[2])
RequestOf(s) == Cardinality({t \in Searched : Earlier(t, s)}) + 1

\* the lookup of activity s came to a result, to an empty list or to an
\* HTTPException: a denial (429) or a failure of the upstream (502)
Tolerated(s) ==
    /\ pc[RequestOf(s)] = "done"
    /\ response[RequestOf(s)].status \in {200, 429, 502}

\* create_plan has returned: call_openai gave the plan and every lookup of
\* the plan is answered
PlanReturned == planned = InLoops /\ \A s \in Searched : Tolerated(s)
Emitted == create_plan_days(plan, response)

C24_PlanIsComplete ==
    PlanReturned =>
        /\ Len(Emitted) = Len(plan)
        /\ \A d \in 1..Len(plan) :
              /\ Emitted[d].day = plan[d].day
              /\ Len(Emitted[d].activities) = Len(plan[d].activities)
        /\ \A s \in PlanActivities :
              LET out == Emitted[s[1]].activities[s[2]]
                  r == response[RequestOf(s)]
              IN /\ out.description = plan[s[1]].activities[s[2]].description
                 /\ IF s \in Searched /\ r.status = 200 /\ Len(r.body) > 0
                    THEN out.place = [summary |-> r.body[1], why |-> out.description]
                    ELSE out.place = <<>>

C24_LookupsGoOn ==
    \A s \in Searched :
        (/\ planned = InLoops
         /\ pc[RequestOf(s)] = "new"
         /\ \A t \in Searched : Earlier(t, s) => Tolerated(t))
        => /\ next_lookup = RequestOf(s)
           /\ lookup_queries(plan)[next_lookup] = plan[s[1]].activities[s[2]].search_query

\* C24: when create_plan returns, its days are the days of the plan and
\* their activities the activities of the plan, in order; an activity has a
\* place exactly when its lookup returned a result, and none when the lookup
\* was denied (429), failed upstream (502), returned nothing or was not made;
\* and the lookup create_plan makes next is that of the first activity not
\* looked up yet, whatever of these the lookups before it came to.
C24_FailedLookupsTolerated == C24_PlanIsComplete /\ C24_LookupsGoOn

\* C24 witness: a returned plan whose first lookup was denied by the limiter
\* (429) and whose second lookup, made after it, found a place.
C24_Witness ==
    /\ PlanReturned
    /\ Len(lookup_queries(plan)) = 2
    /\ response[1].status = 429
    /\ response[2].status = 200
    /\ \E d \in 1..Len(plan) : \E a \in 1..Len(plan[d].activities) :
          Emitted[d].activities[a].place # <<>>

\* C24 witness of the upstream failure: a returned plan whose first lookup
\* failed upstream (502) and whose second lookup, made after it, found a
\* place.
C24_UpstreamFailureReached ==
    /\ PlanReturned
    /\ Len(lookup_queries(plan)) = 2
    /\ response[1].status = 502
    /\ response[2].status = 200
    /\ \E d \in 1..Len(plan) : \E a \in 1..Len(plan[d].activities) :
          Emitted[d].activities[a].place # <<>>

\* C24 witness of the denial: a returned plan whose second lookup was
\* denied by the limiter.
C24_DenialReached ==
    /\ PlanReturned
    /\ Len(lookup_queries(plan)) = 2
    /\ response[2].status = 429

====
